---- MODULE Spec2Model ----
(***************************************************************************)
(* A model of the crawl-and-index core of the GitBook MCP server:          *)
(*   - GitBookScraper (scraper.ts): discovery, parallel ingestion, change  *)
(*     detection, the end-of-run retry pass and the JSON cache;            *)
(*   - the content fingerprint (calculateHash over content + title);       *)
(*   - SQLiteStore (sqliteStore.ts): the pages table, the FTS5 index kept  *)
(*     by triggers, search and its snippet.                                *)
(* Strings whose structure matters (titles, page text, hash inputs) are    *)
(* sequences of one-character strings; a path is the sequence of its       *)
(* segments, so "/" is <<>> and "/a/b" is <<"a", "b">>.                    *)
(***************************************************************************)
EXTENDS Integers, Sequences, FiniteSets, TLC

VARIABLES
    \* ---- the web site being crawled (environment)
    links,          \* path -> sequence of hrefs on that page, in DOM order
    site,           \* path -> current version of the page's HTML
    events,         \* runs started, edits made and faults suffered so far
    clock,          \* the time: the number of scrapeAll calls so far
    \* ---- GitBookScraper fields
    content,        \* this.content: path -> page record or NoPage
    contentKeys,    \* Object.keys(this.content): insertion order of the keys
    visitedUrls,    \* this.visitedUrls
    changedPages,   \* this.changedPages (a Set: insertion ordered)
    discoveredUrls, \* this.discoveredUrls (a Set: insertion ordered)
    failedPages,    \* this.failedPages: path -> retry count (0 = no entry)
    retryQueue,     \* this.retryQueue
    cacheFile,      \* the JSON cache file on disk
    \* ---- position inside scrapeAll and its loops
    pc,             \* phase of scrapeAll
    paths,          \* the list the current batch loop iterates
    idx,            \* the loop variable i
    inflight,       \* paths of the current batch with a fetch in flight
    retryCount,     \* path -> retryCount of the running task for that path
    queue,          \* discoverUrls: queue
    processed,      \* discoverUrls: processed
    results,        \* discoverUrls: batch -> links returned by discoverFromPath
    hung,           \* in-flight fetches the server will never answer
    \* ---- history of the current run (read by the properties only)
    runMode,        \* "none" | "first" | "incremental"
    fetchCount,     \* path -> fetches issued by scrapePage in this run
    okFetch,        \* paths for which scrapePage got a 2xx HTML response
    submitted,      \* paths handed to scrapePageSafe by the main pass
    retried,        \* paths handed to scrapePageSafe by retryFailedPages
    checked,        \* path -> outcome of checkPageForChanges in this run
    before,         \* this.content as it was when the run started
    discFailed,     \* some discovery fetch of this run did not return HTML
    cacheFresh,     \* loadFromCache of this run: cacheAge < cacheTtlMs
    lastOutcome,    \* path -> outcome of its last scrapePage fetch in this run
    checkFetches,   \* path -> outcomes of its change-check fetches, in order
    discFetches,    \* path -> its discovery fetches, in order: "ok" or "failed"
    \* ---- history of all runs (read by the properties only)
    extracted,      \* paths scrapePage ever fetched as 2xx HTML and extracted
    \* ---- fingerprint inputs (pure-function specification)
    fpA, fpB,       \* two (plainText, title) pairs
    fpOut,          \* their fingerprints, once computed
    \* ---- link extraction inputs (pure-function specification)
    hrefsIn,        \* the href attributes of the a[href] elements of a page
    linksOut,       \* what extractInternalLinks returned for them
    \* ---- SQLiteStore
    pagesTable,     \* table pages: a set of rows, each with its rowid
    ftsIndex,       \* pages_fts: a set of indexed entries, each with a rowid
    metadata,       \* table metadata: last_updated and page_count
    searchCache,    \* this.searchCache: a set of [key, results] entries
    storeClock,     \* the time: the number of updateContent calls so far
    lastSearch,     \* the last search since the last update, with its result
    rankOrder,      \* the order ORDER BY rank gives the rows of this database
    lastUpdate,     \* how the last updateContent call ended
    \* ---- one scrapePageWithRetry call (function-level specification)
    boMaxRetries,   \* gitBookConfig.maxRetries
    boRetryCount,   \* the retryCount argument of the innermost invocation
    boDelays,       \* the delays waited so far, in order
    boState,        \* where the call is: calling scrapePage, waiting, ended
    \* ---- one background update check (function-level specification)
    bgNow,          \* Date.now(), in seconds since the epoch
    bgTtlHours,     \* gitBookConfig.cacheTtlHours
    bgLastUpdated,  \* metadata value last_updated; "" when there is none
    bgWrittenAt,    \* the time updateContent wrote that value at; 0: never
    bgOutcome       \* what the check did

scraperVars == <<links, site, events, clock, content, contentKeys,
                 visitedUrls, changedPages, discoveredUrls, failedPages,
                 retryQueue, cacheFile, pc, paths, idx, inflight, retryCount,
                 queue, processed, results, runMode, fetchCount, okFetch,
                 submitted, retried, checked, before, discFailed,
                 cacheFresh, lastOutcome, extracted, hung, checkFetches,
                 discFetches>>
fpVars == <<fpA, fpB, fpOut, hrefsIn, linksOut>>
storeVars == <<pagesTable, ftsIndex, metadata, searchCache, storeClock,
               lastSearch, rankOrder, lastUpdate>>
backoffVars == <<boMaxRetries, boRetryCount, boDelays, boState>>
updateCheckVars == <<bgNow, bgTtlHours, bgLastUpdated, bgWrittenAt, bgOutcome>>
unitVars == <<backoffVars, updateCheckVars>>
vars == <<scraperVars, fpVars, storeVars, unitVars>>

(***************************************************************************)
(* Bounds of the model and configuration values.                           *)
(***************************************************************************)
\* gitBookConfig.maxConcurrentRequests (default 5), kept small
MaxConcurrentRequests == 2
\* gitBookConfig.maxRetries
MaxRetries == 3
\* the events explored: scrapeAll calls, edits of the site by its author,
\* and faults (a fetch that does not return the page, a failed cache write)
MaxEvents == 4

(***************************************************************************)
(* Sequence helpers.                                                       *)
(***************************************************************************)
Range(s) == {s[i] : i \in 1..Len(s)}

Min(a, b) == IF a < b THEN a ELSE b

Max(a, b) == IF a > b THEN a ELSE b

\* [...new Set(xs)]: keeps the first occurrence of every element
RECURSIVE Dedup(_)
Dedup(s) ==
    IF s = <<>> THEN <<>>
    ELSE LET r == Dedup(SubSeq(s, 1, Len(s) - 1))
             x == s[Len(s)]
         IN IF x \in Range(r) THEN r ELSE Append(r, x)

\* an add that does not look for the element
SetAddAlways(s, x) == Append(s, x)

\* Set.add on an insertion-ordered Set
SetAdd(s, x) == IF x \in Range(s) THEN s ELSE Append(s, x)

\* Array.prototype.slice(i, i + n) with a 0-based i
Slice(s, i, n) == SubSeq(s, i + 1, Min(Len(s), i + n))

RECURSIVE Concat(_)
Concat(ss) == IF ss = <<>> THEN <<>> ELSE Head(ss) \o Concat(Tail(ss))

(***************************************************************************)
(* Paths, hrefs and the site.                                              *)
(***************************************************************************)
P0 == <<>>
PA == <<"a">>
PAB == <<"a", "b">>
PC == <<"c">>

\* the fixture site of the spec: /, /a, /a/b, /c
FixturePages == <<P0, PA, PAB, PC>>

\* a three-page site for the ingestion runs
ScrapePages == <<P0, PA, PC>>

ContentSegs == {"a", "b", "c"}

\* every path the crawler can come to hold: up to two content segments
AllPaths == {<<>>} \cup {<<x>> : x \in ContentSegs}
               \cup {<<x, y>> : x \in ContentSegs, y \in ContentSegs}

\* /\.(css|js|ico|png|...)$/i
AssetFiles == {"style.css"}
\* /^\/?(_images|assets|static|...)\//i
StaticDirs == {"assets"}
\* /^\/?(_|\.)/i
HiddenSegs == {".", "..", "_next"}
\* /\/sitemap/i, /\/feed/i, /\/rss/i, /\/favicon/i: need a "/" before the word
SlashWords == {"sitemap.xml"}

\* An href is [k, p]: k is the shape of the string, p its segments.
\*   "root"   /a/b                  "rel"    b, ../c, a/b
\*   "abs"    https://<site>/a/b    "ext"    https://elsewhere/a/b
\*   "frag"   #top                  "mailto" mailto:x@y
\*   "proto"  //elsewhere/a: starts with "/", p = <<"", "elsewhere", "a">>
\*   "tel"    tel:1                 "js"     javascript:void(0)
\*            (no "/" in front; p is the one segment the string is)
HrefKinds == {"root", "rel", "abs", "ext", "frag", "mailto", "proto", "tel",
              "js"}

Href(k, p) == [k |-> k, p |-> p]

Dir(p) == IF p = <<>> THEN <<>> ELSE SubSeq(p, 1, Len(p) - 1)

IsPrefix(s, t) == Len(s) <= Len(t) /\ SubSeq(t, 1, Len(s)) = s

\* the page-relative spelling of a link from page `from` to page `to`
RelSegs(from, to) ==
    LET d == Dir(from)
    IN IF IsPrefix(d, to) /\ Len(to) > Len(d)
       THEN SubSeq(to, Len(d) + 1, Len(to))
       ELSE IF d = <<>> THEN <<".">>
       ELSE [i \in 1..Len(d) |-> ".."] \o to

LinkTo(from, to, style) ==
    IF style = "rel" THEN Href("rel", RelSegs(from, to)) ELSE Href(style, to)

AssetLink == Href("root", <<"assets", "style.css">>)

\* a site whose pages are all cross-linked, page p spelling its links in
\* styleOf[p]; the root page also links to /assets/style.css
SiteLinks(pages, styleOf) ==
    [p \in Range(pages) |->
        LET others == [i \in 1..Len(pages) |-> LinkTo(p, pages[i], styleOf[p])]
        IN IF p = P0 THEN others \o <<AssetLink>> ELSE others]

\* a site whose pages form a chain, with root-relative links
ChainLinks(pages) ==
    [p \in Range(pages) |->
        LET i == CHOOSE j \in 1..Len(pages) : pages[j] = p
        IN IF i < Len(pages) THEN <<Href("root", pages[i + 1])>> ELSE <<>>]

LinkStyles == {"root", "rel", "abs"}

DiscoverySites ==
    {SiteLinks(FixturePages, st) : st \in [Range(FixturePages) -> LinkStyles]}

ScrapeSites == {ChainLinks(ScrapePages)}

(***************************************************************************)
(* Link extraction (scraper.ts: isInternalLink, normalizePath,             *)
(* isStaticAsset, extractInternalLinks).                                   *)
(***************************************************************************)
NoPath == <<"?">>

\* href.startsWith('/') ||
\*   (!startsWith('http') && !startsWith('#') && !startsWith('mailto:'))
isInternalLink(h) ==
    \/ h.k \in {"root", "proto"}
    \/ h.k \notin {"abs", "ext"} /\ h.k # "frag" /\ h.k # "mailto"

\* the regular expressions are tested on the href as written (cleanHref)
isStaticAsset(h) ==
    LET s == h.p
    IN \/ s # <<>> /\ s[Len(s)] \in AssetFiles
       \/ Len(s) >= 2 /\ s[1] \in StaticDirs
       \/ s # <<>> /\ s[1] \in HiddenSegs
       \/ \E i \in 1..Len(s) : s[i] \in SlashWords /\ (i > 1 \/ h.k = "root")

\* null is NoPath; a relative href only gets a "/" in front
normalizePath(h) ==
    IF h.k = "rel" /\ h.p = <<>> THEN NoPath
    ELSE IF isStaticAsset(h) THEN NoPath
    ELSE h.p

extractInternalLinks(hrefs, visited) ==
    LET keep(h) == /\ isInternalLink(h)
                   /\ normalizePath(h) # NoPath
                   /\ normalizePath(h) \notin visited
        RECURSIVE Walk(_)
        Walk(hs) == IF hs = <<>> THEN <<>>
                    ELSE IF keep(Head(hs))
                         THEN <<normalizePath(Head(hs))>> \o Walk(Tail(hs))
                         ELSE Walk(Tail(hs))
    IN Dedup(Walk(hrefs))

(***************************************************************************)
(* What the links of a site really point to (URL resolution), used only to *)
(* state what "reachable" means.                                           *)
(***************************************************************************)
RECURSIVE Walk2(_, _)
Walk2(stack, segs) ==
    IF segs = <<>> THEN stack
    ELSE IF Head(segs) = "." THEN Walk2(stack, Tail(segs))
    ELSE IF Head(segs) = ".." THEN Walk2(Dir(stack), Tail(segs))
    ELSE Walk2(Append(stack, Head(segs)), Tail(segs))

\* the same-site path an href on page `from` refers to, NoPath for another site
Resolve(from, h) ==
    IF h.k \in {"root", "abs"} THEN h.p
    ELSE IF h.k = "rel" THEN Walk2(Dir(from), h.p)
    ELSE NoPath

IsContentPath(p) == p # NoPath /\ ~isStaticAsset(Href("root", p))

Targets(lk, p) ==
    IF p \in DOMAIN lk
    THEN {q \in {Resolve(p, lk[p][i]) : i \in 1..Len(lk[p])} : IsContentPath(q)}
    ELSE {}

RECURSIVE Closure(_, _)
Closure(lk, S) ==
    LET T == S \cup UNION {Targets(lk, p) : p \in S}
    IN IF T = S THEN S ELSE Closure(lk, T)

Reachable(lk) == Closure(lk, {P0})

(***************************************************************************)
(* Pages as served, and the content extracted from them.                   *)
(***************************************************************************)
Untitled == <<"U", "n", "t", "i", "t", "l", "e", "d">>

\* the HTML of page p in version v: the text of its <title>, of its first
\* <h1>, and of its main container / of its body; badMarkup: the markup of
\* the fragment is one that TurndownService.turndown throws on
PageHtml(p, v) ==
    [title |-> IF p = P0 THEN <<" ", "H">>
               ELSE IF p = PC /\ v > 1 THEN <<"C", " ">> ELSE <<>>,
     h1 |-> IF p = PA THEN <<"A">> ELSE <<>>,
     hasMain |-> p # PC,
     main |-> <<"x">> \o [i \in 1..(v - 1) |-> "y"],
     body |-> IF p = PC THEN <<" ", "z">> ELSE <<"n", "x">>,
     badMarkup |-> p = PA \/ (p = PC /\ v > 1)]

\* what cheerio makes of a 2xx response that is not HTML
NonHtmlBody ==
    [title |-> <<>>, h1 |-> <<>>, hasMain |-> FALSE, main |-> <<>>,
     body |-> <<"%">>, badMarkup |-> FALSE]

\* String.prototype.trim
RECURSIVE TrimLeft(_)
TrimLeft(s) == IF s # <<>> /\ Head(s) = " " THEN TrimLeft(Tail(s)) ELSE s

RECURSIVE TrimRight(_)
TrimRight(s) ==
    IF s # <<>> /\ s[Len(s)] = " "
    THEN TrimRight(SubSeq(s, 1, Len(s) - 1))
    ELSE s

Trim(s) == TrimRight(TrimLeft(s))

\* $('title').text() || $('h1').first().text() || 'Untitled'
ExtractTitle(html) ==
    IF html.title # <<>> THEN html.title
    ELSE IF html.h1 # <<>> THEN html.h1
    ELSE Untitled

extractContent(html) ==
    IF html.hasMain THEN Trim(html.main) ELSE Trim(html.body)

\* createHash('sha256').update(content).digest('hex'): an injective tag
calculateHash(s) == [sha256 |-> s]

\* content + title: what both callers feed to calculateHash
HashInput(text, title) == text \o title

\* the fingerprint of a (plainText, title) pair
Fingerprint(text, title) == calculateHash(HashInput(text, title))

\* scrapePage: calculateHash(content + title), title not yet trimmed
ScrapedHash(html) == Fingerprint(extractContent(html), ExtractTitle(html))

\* a change check that hashes the trimmed title
CheckedHashTrimmed(html) ==
    Fingerprint(extractContent(html), Trim(ExtractTitle(html)))

\* checkPageForChanges: calculateHash(content + title)
CheckedHash(html) == Fingerprint(extractContent(html), ExtractTitle(html))

\* turndownService.turndown(html): the markdown of a fragment, a value
\* that tells the fragments apart and is no plain text
Turndown(fragment) == [turndown |-> fragment]

\* the fragment extractMarkdown converts: the first main container when it
\* has markup, else the body
MarkdownFragment(html) ==
    IF html.hasMain /\ html.main # <<>> THEN html.main ELSE html.body

\* an extractMarkdown that gives up the text when the conversion throws
extractMarkdownNoFallback(html) ==
    IF MarkdownFragment(html) = <<>> \/ html.badMarkup THEN <<>>
    ELSE Turndown(MarkdownFragment(html))

\* extractMarkdown: try { return turndown(html) } catch { return
\* mainContent.text().trim() }, likewise for the body; '' without markup
extractMarkdown(html) ==
    IF MarkdownFragment(html) = <<>> THEN <<>>
    ELSE IF html.badMarkup THEN Trim(MarkdownFragment(html))
    ELSE Turndown(MarkdownFragment(html))

NoPage == [none |-> TRUE]

\* the record scrapePage stores in this.content[path]; v is no field of the
\* program: it remembers which version of the page the record was taken from
MakePage(html, v, now) ==
    [title |-> Trim(ExtractTitle(html)),
     content |-> extractContent(html),
     markdown |-> extractMarkdown(html),
     contentHash |-> ScrapedHash(html),
     lastUpdated |-> now,
     lastChecked |-> now,
     v |-> v]

\* a change check that forgets to stamp the page
MarkCheckedNot(page, now) == page

\* checkPageForChanges: existingPage.lastChecked = new Date()
MarkChecked(page, now) == [page EXCEPT !.lastChecked = now]

NoCache == [none |-> TRUE]

(***************************************************************************)
(* Fetching.                                                               *)
(***************************************************************************)
\* "ok": 2xx text/html; "nonhtml": 2xx of another content type;
\* "4xx", "5xx": error statuses; "neterr": fetch rejects
Outcomes == {"ok", "nonhtml", "4xx", "5xx", "neterr"}

\* what a fetch of p can return: a page of the site answers 200 text/html
\* unless a fault strikes; a path that is no page of the site answers 404
FetchOutcomes(p) ==
    IF p \in DOMAIN links
    THEN {"ok"} \cup (IF events < MaxEvents THEN Outcomes ELSE {})
    ELSE {"4xx"}

Fault(o, p) ==
    events' = IF o # "ok" /\ p \in DOMAIN links THEN events + 1 ELSE events

\* response.ok
ResponseOk(o) == o \in {"ok", "nonhtml"}

\* scrapePage wraps the fetch and everything after it in try/catch and
\* returns on a non-2xx status: no fetch outcome makes it throw
ScrapePageThrows(o) == FALSE

EmptyContent == [p \in AllPaths |-> NoPage]
Zero == [p \in AllPaths |-> 0]
Unchecked == [p \in AllPaths |-> "none"]
NoResults == [p \in AllPaths |-> <<>>]

(***************************************************************************)
(* Initial states.                                                         *)
(***************************************************************************)
ScraperInit(sites) ==
    /\ links \in sites
    /\ site = [p \in DOMAIN links |-> 1]
    /\ events = 0
    /\ clock = 0
    /\ content = EmptyContent
    /\ contentKeys = <<>>
    /\ visitedUrls = {}
    /\ changedPages = <<>>
    /\ discoveredUrls = <<>>
    /\ failedPages = Zero
    /\ retryQueue = <<>>
    /\ cacheFile = NoCache
    /\ pc = "idle"
    /\ paths = <<>>
    /\ idx = 0
    /\ inflight = {}
    /\ retryCount = Zero
    /\ queue = <<>>
    /\ processed = {}
    /\ results = NoResults
    /\ runMode = "none"
    /\ fetchCount = Zero
    /\ okFetch = {}
    /\ submitted = {}
    /\ retried = {}
    /\ checked = Unchecked
    /\ before = EmptyContent
    /\ discFailed = FALSE
    /\ cacheFresh = FALSE
    /\ lastOutcome = Unchecked
    /\ extracted = {}
    /\ hung = {}
    /\ checkFetches = NoResults
    /\ discFetches = NoResults

\* no link extraction asked for
NotExtracted == <<NoPath>>

FpIdle ==
    /\ fpA = <<>>
    /\ fpB = <<>>
    /\ fpOut = <<>>
    /\ hrefsIn = <<>>
    /\ linksOut = NotExtracted

NoSearch == [none |-> TRUE]

NoMetadata == [none |-> TRUE]

NoUpdate == [none |-> TRUE]

\* a store whose database was just created by initializeSchema
StoreIdle ==
    /\ pagesTable = {}
    /\ ftsIndex = {}
    /\ metadata = NoMetadata
    /\ searchCache = {}
    /\ storeClock = 0
    /\ lastSearch = NoSearch
    /\ rankOrder = <<>>
    /\ lastUpdate = NoUpdate

\* no scrapePageWithRetry call under study
BackoffIdle ==
    /\ boMaxRetries = 0
    /\ boRetryCount = 0
    /\ boDelays = <<>>
    /\ boState = "idle"

\* no background update check under study
UpdateCheckIdle ==
    /\ bgNow = 0
    /\ bgTtlHours = 0
    /\ bgLastUpdated = ""
    /\ bgWrittenAt = 0
    /\ bgOutcome = "idle"

UnitIdle == BackoffIdle /\ UpdateCheckIdle

Init == ScraperInit(ScrapeSites) /\ FpIdle /\ StoreIdle /\ UnitIdle

(***************************************************************************)
(* scrapeAll: entry, loadFromCache.                                        *)
(***************************************************************************)
\* the locals of scrapeAll's callees go out of scope when it returns
LocalsReset ==
    /\ paths' = <<>>
    /\ idx' = 0
    /\ retryCount' = Zero
    /\ queue' = <<>>
    /\ processed' = {}
    /\ results' = NoResults

\* the history of a run is kept until something happens after the run
HistoryReset ==
    /\ runMode' = "none"
    /\ fetchCount' = Zero
    /\ okFetch' = {}
    /\ submitted' = {}
    /\ retried' = {}
    /\ checked' = Unchecked
    /\ before' = EmptyContent
    /\ discFailed' = FALSE
    /\ cacheFresh' = FALSE
    /\ lastOutcome' = Unchecked
    /\ checkFetches' = NoResults
    /\ discFetches' = NoResults

\* the process is restarted: a new GitBookScraper (field initialisers)
Restart ==
    /\ pc \in {"idle", "done"}
    /\ content # EmptyContent \/ visitedUrls # {} \/ discoveredUrls # <<>>
    /\ content' = EmptyContent
    /\ contentKeys' = <<>>
    /\ visitedUrls' = {}
    /\ changedPages' = <<>>
    /\ discoveredUrls' = <<>>
    /\ failedPages' = Zero
    /\ retryQueue' = <<>>
    /\ pc' = "idle"
    /\ HistoryReset
    /\ UNCHANGED <<links, events, clock, site, cacheFile, paths, idx,
                   inflight, retryCount, queue, processed, results>>
    /\ UNCHANGED <<extracted, hung, fpVars, storeVars, unitVars>>

\* the site's author edits page p between two runs
EditSite(p) ==
    /\ pc \in {"idle", "done"}
    /\ p \in DOMAIN site
    /\ events < MaxEvents
    /\ events' = events + 1
    /\ site' = [site EXCEPT ![p] = @ + 1]
    /\ pc' = "idle"
    /\ HistoryReset
    /\ UNCHANGED <<links, clock, content, contentKeys, visitedUrls,
                   changedPages, discoveredUrls, failedPages, retryQueue,
                   cacheFile, paths, idx, inflight, retryCount, queue,
                   processed, results>>
    /\ UNCHANGED <<extracted, hung, fpVars, storeVars, unitVars>>

\* a loadFromCache that does not look at the age of the cache
CacheLoadsAnyAge(fresh) ==
    /\ cacheFile # NoCache
    /\ cacheFile.keys # <<>>

\* a loadFromCache that accepts a cache file without pages
CacheLoadsEmpty(fresh) ==
    /\ cacheFile # NoCache
    /\ fresh

\* loadFromCache: cacheAge < cacheTtlMs && hasContent
CacheLoads(fresh) ==
    /\ cacheFile # NoCache
    /\ fresh
    /\ cacheFile.keys # <<>>

\* scrapeAll up to its first batch; fresh: the cache is younger than the TTL
StartScrapeAll(fresh) ==
    /\ pc \in {"idle", "done"}
    /\ events < MaxEvents
    \* without a cache file readFile throws and no age is computed
    /\ fresh => cacheFile # NoCache
    /\ cacheFresh' = fresh
    /\ lastOutcome' = Unchecked
    /\ checkFetches' = NoResults
    /\ discFetches' = NoResults
    /\ events' = events + 1
    /\ clock' = clock + 1
    /\ fetchCount' = Zero
    /\ okFetch' = {}
    /\ submitted' = {}
    /\ retried' = {}
    /\ checked' = Unchecked
    /\ discFailed' = FALSE
    /\ inflight' = {}
    /\ retryCount' = Zero
    /\ idx' = 0
    /\ results' = NoResults
    /\ IF CacheLoads(fresh)
       THEN /\ content' = cacheFile.content
            /\ contentKeys' = cacheFile.keys
            /\ before' = cacheFile.content
            /\ runMode' = "incremental"
            /\ pc' = "detect"
            /\ paths' = cacheFile.keys
            /\ UNCHANGED <<queue, processed, discoveredUrls>>
       ELSE /\ UNCHANGED <<content, contentKeys>>
            /\ before' = content
            /\ runMode' = "first"
            /\ pc' = "discover"
            /\ paths' = <<>>
            /\ queue' = <<P0>>
            /\ processed' = {}
            /\ discoveredUrls' = SetAdd(discoveredUrls, P0)
    /\ UNCHANGED <<links, site, visitedUrls, changedPages, failedPages,
                   retryQueue, cacheFile>>
    /\ UNCHANGED <<extracted, hung, fpVars, storeVars, unitVars>>

(***************************************************************************)
(* discoverUrls / discoverFromPath. gitBookConfig.debug has its default,   *)
(* false: the discovery cache is neither read nor written.                 *)
(***************************************************************************)
\* Math.min(8, gitBookConfig.maxConcurrentRequests)
DiscoveryCap == 8

discoveryBatchSize == Min(DiscoveryCap, MaxConcurrentRequests)

\* the inner while loop: shift paths off the queue into the batch
RECURSIVE TakeBatch(_, _, _)
TakeBatch(q, done, batch) ==
    IF Len(batch) < discoveryBatchSize /\ q # <<>>
    THEN IF Head(q) \notin done
         THEN TakeBatch(Tail(q), done \cup {Head(q)}, Append(batch, Head(q)))
         ELSE TakeBatch(Tail(q), done, batch)
    ELSE [queue |-> q, processed |-> done, batch |-> batch]

\* for (const link of newLinks)
\*   if (!processed.has(link) && !queue.includes(link)) ...
RECURSIVE AddLinks(_, _, _, _)
AddLinks(newLinks, q, done, found) ==
    IF newLinks = <<>> THEN [queue |-> q, discovered |-> found]
    ELSE LET l == Head(newLinks)
         IN IF l \notin done /\ l \notin Range(q)
            THEN AddLinks(Tail(newLinks), Append(q, l), done, SetAdd(found, l))
            ELSE AddLinks(Tail(newLinks), q, done, found)

\* a discovery that reads links out of whatever body came back
discoverFromPathLax(p, o) ==
    IF p \in DOMAIN links THEN extractInternalLinks(links[p], visitedUrls)
    ELSE <<>>

\* discoverFromPath: links of a 2xx HTML page, [] otherwise
discoverFromPath(p, o) ==
    IF o = "ok" THEN extractInternalLinks(links[p], visitedUrls) ELSE <<>>

\* a batch loop that does not wait for its batch
BatchSettledNoWait(pending) == TRUE

\* await Promise.allSettled(promises) / await Promise.all(promises): the loop
\* goes on when no task of the batch is pending
BatchSettled(pending) == pending = {}

\* the server never answers the request for p. fetchWithHeaders passes fetch
\* no signal and starts no timer (requestTimeoutMs is read by the config
\* validation and its log only), so nothing settles that fetch
FetchHangs(p) ==
    /\ p \in inflight \ hung
    /\ events < MaxEvents
    /\ events' = events + 1
    /\ hung' = hung \cup {p}
    /\ UNCHANGED <<links, clock, site, content, contentKeys, visitedUrls,
                   changedPages, discoveredUrls, failedPages, retryQueue,
                   cacheFile, pc, paths, idx, inflight, retryCount, queue,
                   processed, results, runMode, fetchCount, okFetch,
                   submitted, retried, checked, before, discFailed,
                   cacheFresh, lastOutcome, extracted>>
    /\ UNCHANGED <<checkFetches, discFetches, fpVars, storeVars, unitVars>>

\* a discovery fetch settles
DiscoverFetchDone(p, o) ==
    /\ pc = "discover"
    /\ p \in inflight \ hung
    /\ o \in FetchOutcomes(p)
    /\ Fault(o, p)
    /\ results' = [results EXCEPT ![p] = discoverFromPath(p, o)]
    /\ inflight' = inflight \ {p}
    /\ discFailed' = (discFailed \/ o # "ok")
    /\ discFetches' = [discFetches EXCEPT
                          ![p] = Append(@, IF o = "ok" THEN "ok" ELSE "failed")]
    /\ UNCHANGED <<links, clock, site, content, contentKeys, visitedUrls,
                   changedPages, discoveredUrls, failedPages, retryQueue,
                   cacheFile, pc, paths, idx, retryCount, queue, processed,
                   runMode, fetchCount, okFetch, submitted, retried, checked,
                   before>>
    /\ UNCHANGED <<cacheFresh, lastOutcome, extracted, hung,
                   checkFetches, fpVars, storeVars, unitVars>>

\* after Promise.allSettled: enqueue the batch's links, then the next turn of
\* the while loop, which starts a batch or ends discovery
DiscoverLoop ==
    /\ pc = "discover"
    /\ BatchSettled(inflight)
    /\ LET newLinks == Concat([i \in 1..Len(paths) |-> results[paths[i]]])
           added == AddLinks(newLinks, queue, processed, discoveredUrls)
           taken == TakeBatch(added.queue, processed, <<>>)
       IN /\ discoveredUrls' = added.discovered
          /\ queue' = taken.queue
          /\ processed' = taken.processed
          /\ results' = NoResults
          /\ IF taken.batch # <<>>
             THEN /\ paths' = taken.batch
                  /\ inflight' = Range(taken.batch)
                  /\ pc' = "discover"
             ELSE \* scrapeAllPages, phase 2: Array.from(this.discoveredUrls)
                  /\ paths' = added.discovered
                  /\ inflight' = {}
                  /\ pc' = "ingest"
    /\ idx' = 0
    /\ UNCHANGED <<links, events, clock, site, content, contentKeys,
                   visitedUrls, changedPages, failedPages, retryQueue,
                   cacheFile, retryCount, runMode, fetchCount, okFetch,
                   submitted, retried, checked, before, discFailed>>
    /\ UNCHANGED <<cacheFresh, lastOutcome, extracted, hung,
                   checkFetches, discFetches, fpVars, storeVars, unitVars>>

(***************************************************************************)
(* scrapePathsParallel / retryFailedPages and the tasks they start:        *)
(* scrapePageSafe -> scrapePageWithRetry -> scrapePage.                    *)
(***************************************************************************)
\* the list the running batch loop iterates
WorkList == IF pc = "retry" THEN retryQueue ELSE paths

\* batches twice as large as configured
BatchSizeDouble(phase) == 2 * MaxConcurrentRequests

\* Math.max(1, Math.floor(maxConcurrentRequests / 2)) in the retry pass
BatchSize(phase) ==
    IF phase = "retry" THEN Max(1, MaxConcurrentRequests \div 2)
    ELSE MaxConcurrentRequests

\* a loop that steps one path too far
NextBatchStartSkips(i, phase) == i + BatchSize(phase) + 1

\* i += batchSize
NextBatchStart(i, phase) == i + BatchSize(phase)

\* an update that re-ingests every known page
ChangedPathsAll(changed, keys) == keys

\* updateChangedPagesParallel: Array.from(this.changedPages)
ChangedPaths(changed, keys) == changed

\* forceUpdate: false from scrapeAllPages, true for changed and retried pages
ForceUpdate(phase) == phase # "ingest"

\* this.visitedUrls.has(url) && !forceUpdate
SkipsVisited(p, visited, force) == p \in visited /\ ~force

\* a scrapePage that forgets the content-type test
IsHtmlResponseLax(o) == ResponseOk(o)

\* scrapePage goes on to extract: response.ok and a text/html content type
IsHtmlResponse(o) == o = "ok"

\* what scrapePage extracts from the body it was sent
ScrapedRecord(p, o) ==
    IF o = "ok" THEN MakePage(PageHtml(p, site[p]), site[p], clock)
    ELSE MakePage(NonHtmlBody, site[p], clock)

\* this.content[path] = {...}
StorePage(c, p, page) == [c EXCEPT ![p] = page]

\* handlePageFailure
handlePageFailure(p) ==
    /\ failedPages' = [failedPages EXCEPT ![p] = @ + 1]
    /\ retryQueue' = IF p \in Range(retryQueue) THEN retryQueue
                     ELSE Append(retryQueue, p)

\* one turn of the for loop: the batch's tasks run up to their fetch
ScrapeBatch ==
    /\ pc \in {"ingest", "update", "retry"}
    /\ BatchSettled(inflight)
    /\ idx < Len(WorkList)
    /\ LET batch == Slice(WorkList, idx, BatchSize(pc))
           fetching == {p \in Range(batch) :
                           ~SkipsVisited(p, visitedUrls, ForceUpdate(pc))}
       IN /\ inflight' = fetching
          /\ visitedUrls' = visitedUrls \cup fetching
          \* a task that returns at once still runs failedPages.delete(path)
          /\ failedPages' = [p \in AllPaths |->
                                IF p \in Range(batch) \ fetching THEN 0
                                ELSE failedPages[p]]
          /\ retryCount' = [p \in AllPaths |->
                                IF p \in Range(batch) THEN 0 ELSE retryCount[p]]
          /\ fetchCount' = [p \in AllPaths |->
                                IF p \in fetching THEN fetchCount[p] + 1
                                ELSE fetchCount[p]]
          /\ IF pc = "retry"
             THEN retried' = retried \cup Range(batch) /\ UNCHANGED submitted
             ELSE submitted' = submitted \cup Range(batch) /\ UNCHANGED retried
    /\ idx' = NextBatchStart(idx, pc)
    /\ UNCHANGED <<links, events, clock, site, content, contentKeys,
                   changedPages, discoveredUrls, retryQueue, cacheFile, pc,
                   paths, queue, processed, results, runMode, okFetch,
                   checked, before, discFailed>>
    /\ UNCHANGED <<cacheFresh, lastOutcome, extracted, hung,
                   checkFetches, discFetches, fpVars, storeVars, unitVars>>

\* the fetch of scrapePage(p) settles with outcome o
ScrapeFetchDone(p, o) ==
    /\ pc \in {"ingest", "update", "retry"}
    /\ p \in inflight \ hung
    /\ o \in FetchOutcomes(p)
    /\ Fault(o, p)
    /\ lastOutcome' = [lastOutcome EXCEPT ![p] = o]
    /\ extracted' = IF o = "ok" THEN extracted \cup {p} ELSE extracted
    /\ IF ScrapePageThrows(o)
       THEN \* scrapePageWithRetry, catch branch
            IF retryCount[p] < MaxRetries
            THEN /\ retryCount' = [retryCount EXCEPT ![p] = @ + 1]
                 /\ IF SkipsVisited(p, visitedUrls, ForceUpdate(pc))
                    THEN /\ inflight' = inflight \ {p}
                         /\ failedPages' = [failedPages EXCEPT ![p] = 0]
                         /\ UNCHANGED fetchCount
                    ELSE /\ fetchCount' = [fetchCount EXCEPT ![p] = @ + 1]
                         /\ UNCHANGED <<inflight, failedPages>>
                 /\ UNCHANGED <<content, contentKeys, retryQueue, okFetch>>
            ELSE /\ handlePageFailure(p)
                 /\ inflight' = inflight \ {p}
                 /\ UNCHANGED <<content, contentKeys, retryCount, fetchCount,
                                okFetch>>
       ELSE \* scrapePage returned; scrapePageWithRetry: failedPages.delete
            /\ IF IsHtmlResponse(o)
               THEN /\ content' = StorePage(content, p, ScrapedRecord(p, o))
                    /\ contentKeys' = SetAdd(contentKeys, p)
                    /\ okFetch' = okFetch \cup {p}
               ELSE UNCHANGED <<content, contentKeys, okFetch>>
            /\ failedPages' = [failedPages EXCEPT ![p] = 0]
            /\ inflight' = inflight \ {p}
            /\ UNCHANGED <<retryCount, fetchCount, retryQueue>>
    /\ UNCHANGED <<links, clock, site, visitedUrls, changedPages,
                   discoveredUrls, cacheFile, pc, paths, idx, queue,
                   processed, results, runMode, submitted, retried, checked,
                   before, discFailed>>
    /\ UNCHANGED <<cacheFresh, hung, checkFetches, discFetches, fpVars,
                   storeVars, unitVars>>

\* the main pass is over: updateChangedPagesParallel clears changedPages;
\* retryFailedPages starts
FinishPass ==
    /\ pc \in {"ingest", "update"}
    /\ BatchSettled(inflight)
    /\ idx >= Len(paths)
    /\ changedPages' = IF pc = "update" THEN <<>> ELSE changedPages
    /\ pc' = "retry"
    /\ idx' = 0
    /\ UNCHANGED <<links, events, clock, site, content, contentKeys,
                   visitedUrls, discoveredUrls, failedPages, retryQueue,
                   cacheFile, paths, inflight, retryCount, queue, processed,
                   results, runMode, fetchCount, okFetch, submitted, retried,
                   checked, before, discFailed>>
    /\ UNCHANGED <<cacheFresh, lastOutcome, extracted, hung,
                   checkFetches, discFetches, fpVars, storeVars, unitVars>>

\* saveToCache: a failed write is caught and logged
saveToCache(written) ==
    cacheFile' = IF written
                 THEN [timestamp |-> clock, content |-> content,
                       keys |-> contentKeys]
                 ELSE cacheFile

\* retryFailedPages ends (this.retryQueue = []), then saveToCache
FinishRun(written) ==
    /\ pc = "retry"
    /\ BatchSettled(inflight)
    /\ idx >= Len(retryQueue)
    /\ retryQueue' = <<>>
    /\ written \/ events < MaxEvents
    /\ events' = IF written THEN events ELSE events + 1
    /\ saveToCache(written)
    /\ pc' = "done"
    /\ LocalsReset
    /\ UNCHANGED <<links, clock, site, content, contentKeys, visitedUrls,
                   changedPages, discoveredUrls, failedPages, inflight,
                   runMode, fetchCount, okFetch, submitted, retried, checked,
                   before, discFailed>>
    /\ UNCHANGED <<cacheFresh, lastOutcome, extracted, hung,
                   checkFetches, discFetches, fpVars, storeVars, unitVars>>

(***************************************************************************)
(* detectChanges / checkPageForChanges.                                    *)
(***************************************************************************)
\* while (retryCount <= 2): the quick retries of a change check
QuickRetries == 2

\* a change check that retries whatever the status
RetriesCheckAny(o, n) == ~ResponseOk(o) /\ n < QuickRetries

\* response.status >= 500 && retryCount < 2, and the catch branch's
\* retryCount < 2: a 5xx or a rejected fetch is tried again
RetriesCheck(o, n) == (o = "5xx" \/ o = "neterr") /\ n < QuickRetries

\* a change check that lets a rejected fetch escape
CheckPageRejectsOnError(o) == o = "neterr"

\* checkPageForChanges runs its fetch and parse inside try/catch and returns
\* from the catch branch: its promise never rejects
CheckPageRejects(o) == FALSE

\* the body cheerio parses when checkPageForChanges got a 2xx response
CheckedBody(p, o) == IF o = "ok" THEN PageHtml(p, site[p]) ELSE NonHtmlBody

\* one turn of the for loop of detectChanges
DetectBatch ==
    /\ pc = "detect"
    /\ BatchSettled(inflight)
    /\ idx < Len(paths)
    /\ LET batch == Slice(paths, idx, MaxConcurrentRequests)
       IN /\ inflight' = {p \in Range(batch) : content[p] # NoPage}
          /\ retryCount' = [p \in AllPaths |->
                                IF p \in Range(batch) THEN 0 ELSE retryCount[p]]
    /\ idx' = idx + MaxConcurrentRequests
    /\ UNCHANGED <<links, events, clock, site, content, contentKeys,
                   visitedUrls, changedPages, discoveredUrls, failedPages,
                   retryQueue, cacheFile, pc, paths, queue, processed,
                   results, runMode, fetchCount, okFetch, submitted, retried,
                   checked, before, discFailed>>
    /\ UNCHANGED <<cacheFresh, lastOutcome, extracted, hung,
                   checkFetches, discFetches, fpVars, storeVars, unitVars>>

\* the fetch of checkPageForChanges(p) settles with outcome o
CheckFetchDone(p, o) ==
    /\ pc = "detect"
    /\ p \in inflight \ hung
    /\ o \in FetchOutcomes(p)
    /\ Fault(o, p)
    /\ IF ResponseOk(o)
       THEN LET newHash == CheckedHash(CheckedBody(p, o))
            IN /\ content' = [content EXCEPT ![p] = MarkChecked(@, clock)]
               /\ changedPages' = IF newHash # content[p].contentHash
                                  THEN SetAdd(changedPages, p)
                                  ELSE changedPages
               /\ checked' = [checked EXCEPT ![p] = o]
               /\ inflight' = inflight \ {p}
               /\ UNCHANGED retryCount
       ELSE IF RetriesCheck(o, retryCount[p])
       THEN /\ retryCount' = [retryCount EXCEPT ![p] = @ + 1]
            /\ UNCHANGED <<content, changedPages, checked, inflight>>
       ELSE /\ checked' = [checked EXCEPT ![p] = "skipped"]
            /\ inflight' = inflight \ {p}
            /\ UNCHANGED <<content, changedPages, retryCount>>
    /\ checkFetches' = [checkFetches EXCEPT ![p] = Append(@, o)]
    \* Promise.all in detectChanges: a rejected task would end scrapeAll
    /\ pc' = IF CheckPageRejects(o) THEN "failed" ELSE pc
    /\ UNCHANGED <<links, clock, site, contentKeys, visitedUrls,
                   discoveredUrls, failedPages, retryQueue, cacheFile,
                   paths, idx, queue, processed, results, runMode, fetchCount,
                   okFetch, submitted, retried, before, discFailed>>
    /\ UNCHANGED <<cacheFresh, lastOutcome, extracted, hung,
                   discFetches, fpVars, storeVars, unitVars>>

\* detectChanges returned: update the changed pages, or return
DetectDone ==
    /\ pc = "detect"
    /\ BatchSettled(inflight)
    /\ idx >= Len(paths)
    /\ IF changedPages # <<>>
       THEN /\ pc' = "update"
            /\ paths' = ChangedPaths(changedPages, contentKeys)
            /\ idx' = 0
            /\ UNCHANGED <<retryCount, queue, processed, results>>
       ELSE /\ pc' = "done"
            /\ LocalsReset
    /\ UNCHANGED <<links, events, clock, site, content, contentKeys,
                   visitedUrls, changedPages, discoveredUrls, failedPages,
                   retryQueue, cacheFile, inflight, runMode, fetchCount,
                   okFetch, submitted, retried, checked, before, discFailed>>
    /\ UNCHANGED <<cacheFresh, lastOutcome, extracted, hung,
                   checkFetches, discFetches, fpVars, storeVars, unitVars>>

(***************************************************************************)
(* The scraper's specification.                                            *)
(***************************************************************************)
Next ==
    \/ Restart
    \/ \E p \in AllPaths : EditSite(p)
    \/ \E fresh \in BOOLEAN : StartScrapeAll(fresh)
    \/ \E p \in AllPaths, o \in Outcomes : DiscoverFetchDone(p, o)
    \/ DiscoverLoop
    \/ ScrapeBatch
    \/ \E p \in AllPaths, o \in Outcomes : ScrapeFetchDone(p, o)
    \/ FinishPass
    \/ \E written \in BOOLEAN : FinishRun(written)
    \/ DetectBatch
    \/ \E p \in AllPaths, o \in Outcomes : CheckFetchDone(p, o)
    \/ DetectDone
    \/ \E p \in AllPaths : FetchHangs(p)

Spec == Init /\ [][Next]_vars

(***************************************************************************)
(* Discovery on its own: one discoverUrls pass over a cross-linked site    *)
(* whose pages spell their links in every mix of styles.                   *)
(***************************************************************************)
InitDiscovery == ScraperInit(DiscoverySites) /\ FpIdle /\ StoreIdle /\ UnitIdle

NextDiscovery ==
    \/ \E fresh \in BOOLEAN : StartScrapeAll(fresh)
    \/ \E p \in AllPaths, o \in Outcomes : DiscoverFetchDone(p, o)
    \/ DiscoverLoop

SpecDiscovery == InitDiscovery /\ [][NextDiscovery]_vars

(***************************************************************************)
(* Change detection on its own: the scraper as a first run without a       *)
(* failure leaves it (every page of the fixture site stored, the cache     *)
(* file written), followed by incremental runs.                            *)
(***************************************************************************)
ScrapedOnce == Range(ScrapePages)

FirstRunContent ==
    [p \in AllPaths |-> IF p \in ScrapedOnce
                        THEN MakePage(PageHtml(p, 1), 1, 1) ELSE NoPage]

AfterFirstRun ==
    /\ links \in ScrapeSites
    /\ site = [p \in DOMAIN links |-> 1]
    /\ clock = 1
    /\ content = FirstRunContent
    /\ contentKeys = ScrapePages
    /\ visitedUrls = ScrapedOnce
    /\ changedPages = <<>>
    /\ discoveredUrls = ScrapePages
    /\ failedPages = Zero
    /\ retryQueue = <<>>
    /\ cacheFile = [timestamp |-> 1, content |-> FirstRunContent,
                    keys |-> ScrapePages]
    /\ pc = "done"
    /\ paths = <<>>
    /\ idx = 0
    /\ inflight = {}
    /\ retryCount = Zero
    /\ queue = <<>>
    /\ processed = {}
    /\ results = NoResults
    /\ runMode = "first"
    /\ fetchCount = [p \in AllPaths |-> IF p \in ScrapedOnce THEN 1 ELSE 0]
    /\ okFetch = ScrapedOnce
    /\ submitted = ScrapedOnce
    /\ retried = {}
    /\ checked = Unchecked
    /\ before = EmptyContent
    /\ discFailed = FALSE
    /\ cacheFresh = FALSE
    /\ lastOutcome = [p \in AllPaths |-> IF p \in ScrapedOnce THEN "ok"
                                          ELSE "none"]
    /\ extracted = ScrapedOnce
    /\ hung = {}
    /\ checkFetches = NoResults
    /\ discFetches = [p \in AllPaths |-> IF p \in ScrapedOnce THEN <<"ok">>
                                          ELSE <<>>]

InitDetect == AfterFirstRun /\ events = 0 /\ FpIdle /\ StoreIdle /\ UnitIdle

NextDetect ==
    \/ \E p \in AllPaths : EditSite(p)
    \/ StartScrapeAll(TRUE)
    \/ DetectBatch
    \/ \E p \in AllPaths, o \in Outcomes : CheckFetchDone(p, o)
    \/ DetectDone
    \/ ScrapeBatch
    \/ \E p \in AllPaths, o \in Outcomes : ScrapeFetchDone(p, o)
    \/ FinishPass
    \/ \E written \in BOOLEAN : FinishRun(written)

SpecDetect == InitDetect /\ [][NextDetect]_vars

(***************************************************************************)
(* The fingerprint as a function of (plainText, title).                    *)
(***************************************************************************)
\* longest plain text and title tried
MaxFpLen == 2

FpChars == {"a", "b"}

FpStrings == UNION {[1..n -> FpChars] : n \in 0..MaxFpLen}

\* the title is never empty: it falls back to 'Untitled'
FpInputs == [text : FpStrings, title : FpStrings \ {<<>>}]

InitFingerprint ==
    /\ ScraperInit(ScrapeSites)
    /\ StoreIdle
    /\ UnitIdle
    /\ fpA \in FpInputs
    /\ fpB \in FpInputs
    /\ fpOut = <<>>
    /\ hrefsIn = <<>>
    /\ linksOut = NotExtracted

ComputeFingerprints ==
    /\ fpOut = <<>>
    /\ fpOut' = <<Fingerprint(fpA.text, fpA.title),
                  Fingerprint(fpB.text, fpB.title)>>
    /\ UNCHANGED <<fpA, fpB, hrefsIn, linksOut, scraperVars, storeVars,
                   unitVars>>

NextFingerprint == ComputeFingerprints

SpecFingerprint == InitFingerprint /\ [][NextFingerprint]_vars

(***************************************************************************)
(* extractInternalLinks as a function of the hrefs of a page at the root   *)
(* of the site.                                                            *)
(***************************************************************************)
\* a[href] elements on the page
MaxHrefs == 2

\* one href of every shape, and a stylesheet
SampleHrefs ==
    {Href("root", PA), Href("rel", <<"b">>), Href("abs", PA),
     Href("ext", PA), Href("frag", <<>>), Href("mailto", <<>>),
     Href("proto", <<"", "elsewhere", "a">>), Href("tel", <<"tel:1">>),
     Href("js", <<"javascript:void(0)">>), AssetLink}

InitLinks ==
    /\ ScraperInit(ScrapeSites)
    /\ StoreIdle
    /\ UnitIdle
    /\ fpA = <<>>
    /\ fpB = <<>>
    /\ fpOut = <<>>
    /\ hrefsIn \in UNION {[1..n -> SampleHrefs] : n \in 0..MaxHrefs}
    /\ linksOut = NotExtracted

ExtractLinks ==
    /\ linksOut = NotExtracted
    /\ linksOut' = extractInternalLinks(hrefsIn, visitedUrls)
    /\ UNCHANGED <<fpA, fpB, fpOut, hrefsIn, scraperVars, storeVars,
                   unitVars>>

NextLinks == ExtractLinks

SpecLinks == InitLinks /\ [][NextLinks]_vars

(***************************************************************************)
(* Text: the string operations the store and the text processor use.       *)
(* Page text, titles and queries of the store are strings.                 *)
(***************************************************************************)
CharAt(s, i) == SubSeq(s, i, i)

\* the 0-based positions at which w occurs in s
Occurrences(s, w) ==
    {i \in 0..(Len(s) - Len(w)) : SubSeq(s, i + 1, i + Len(w)) = w}

\* String.prototype.indexOf: 0-based, -1 when w does not occur
indexOf(s, w) ==
    LET at == Occurrences(s, w)
    IN IF at = {} THEN -1 ELSE CHOOSE i \in at : \A j \in at : i <= j

\* String.prototype.substring(start, end), for 0 <= start <= end: both ends
\* are clamped to the length of s
substring(s, start, end) ==
    SubSeq(s, (IF start < Len(s) THEN start ELSE Len(s)) + 1,
           IF end < Len(s) THEN end ELSE Len(s))

\* the lower-case form of each upper-case letter
LowerOf ==
    ("A" :> "a") @@ ("B" :> "b") @@ ("C" :> "c") @@ ("D" :> "d") @@
    ("E" :> "e") @@ ("F" :> "f") @@ ("G" :> "g") @@ ("H" :> "h") @@
    ("I" :> "i") @@ ("J" :> "j") @@ ("K" :> "k") @@ ("L" :> "l") @@
    ("M" :> "m") @@ ("N" :> "n") @@ ("O" :> "o") @@ ("P" :> "p") @@
    ("Q" :> "q") @@ ("R" :> "r") @@ ("S" :> "s") @@ ("T" :> "t") @@
    ("U" :> "u") @@ ("V" :> "v") @@ ("W" :> "w") @@ ("X" :> "x") @@
    ("Y" :> "y") @@ ("Z" :> "z")

LowerChar(c) == IF c \in DOMAIN LowerOf THEN LowerOf[c] ELSE c

\* characters i..j of s in lower case (halving keeps the recursion shallow)
RECURSIVE LowerRange(_, _, _)
LowerRange(s, i, j) ==
    IF i > j THEN ""
    ELSE IF i = j THEN LowerChar(CharAt(s, i))
    ELSE LET m == (i + j) \div 2
         IN LowerRange(s, i, m) \o LowerRange(s, m + 1, j)

\* String.prototype.toLowerCase
toLowerCase(s) == LowerRange(s, 1, Len(s))

\* String.prototype.split on single separator characters: the pieces between
\* consecutive separators, empty pieces included
split(s, seps) ==
    LET cuts == {i \in 1..Len(s) : CharAt(s, i) \in seps}
                    \cup {0, Len(s) + 1}
        cut(k) == CHOOSE x \in cuts : Cardinality({y \in cuts : y < x}) = k - 1
    IN [k \in 1..(Cardinality(cuts) - 1) |->
            SubSeq(s, cut(k) + 1, cut(k + 1) - 1)]

NonEmpty(ss) == SelectSeq(ss, LAMBDA t : t # "")

RECURSIVE join(_, _)
join(ss, sep) ==
    IF ss = <<>> THEN ""
    ELSE IF Len(ss) = 1 THEN ss[1]
    ELSE ss[1] \o sep \o join(Tail(ss), sep)

\* characters i..j of s with every character of set replaced by the text by
RECURSIVE ReplaceRange(_, _, _, _, _)
ReplaceRange(s, set, by, i, j) ==
    IF i > j THEN ""
    ELSE IF i = j THEN (IF CharAt(s, i) \in set THEN by ELSE CharAt(s, i))
    ELSE LET m == (i + j) \div 2
         IN ReplaceRange(s, set, by, i, m) \o ReplaceRange(s, set, by, m + 1, j)

ReplaceAll(s, set, by) == ReplaceRange(s, set, by, 1, Len(s))

Digits == {"0", "1", "2", "3", "4", "5", "6", "7", "8", "9"}

\* characters outside [\w\s-] that the page texts use
Punctuation == {".", ",", ":", "/"}

(***************************************************************************)
(* TextProcessor (textProcessor.ts).                                       *)
(***************************************************************************)
\* lower case, punctuation to blanks, runs of blanks collapsed, trimmed
normalizeText(text) ==
    join(NonEmpty(split(ReplaceAll(toLowerCase(text), Punctuation, " "),
                        {" "})), " ")

\* natural's WordTokenizer: the maximal runs of word characters
tokenize(text) == NonEmpty(split(text, {" ", "-"}))

\* this.normalizationRules, the entries the page texts can hit
normalizeToken(token) ==
    CASE token = "auth" -> "authentication"
      [] token = "config" -> "configuration"
      [] token = "db" -> "database"
      [] token = "api" -> "interface"
      [] token = "ui" -> "interface"
      [] token = "configuration" -> "config"
      [] token = "documentation" -> "docs"
      [] OTHER -> token

\* natural's English stop words, the ones the page texts can hit
stopWords == {"a", "an", "and", "the", "is", "of", "to", "in", "for"}

IsNumber(token) == \A i \in 1..Len(token) : CharAt(token, i) \in Digits

shouldKeepToken(token) ==
    /\ Len(token) >= 2
    /\ token \notin stopWords
    /\ ~IsNumber(token)

\* natural's PorterStemmer.stem on the vocabulary of the page texts; the
\* other words of the vocabulary (setup, wallet, loremipsumdolorsitamet) are their
\* own stems
PorterStem(token) ==
    CASE token = "running" -> "run"
      [] token = "configuration" -> "configur"
      [] token = "authentication" -> "authent"
      [] token = "database" -> "databas"
      [] token = "interface" -> "interfac"
      [] token = "guide" -> "guid"
      [] token = "keys" -> "kei"
      [] token = "docs" -> "doc"
      [] OTHER -> token

compoundWords == {"cross-chain", "multi-chain", "end-to-end", "real-time"}

stemToken(token) ==
    IF token \in compoundWords THEN token
    ELSE IF indexOf(token, "-") # -1 THEN token
    ELSE IF Len(token) < 4 THEN token
    ELSE PorterStem(token)

processText(text) ==
    IF text = "" THEN <<>>
    ELSE LET tokens == tokenize(normalizeText(text))
             mapped == [i \in 1..Len(tokens) |-> normalizeToken(tokens[i])]
             kept == SelectSeq(mapped, shouldKeepToken)
         IN Dedup([i \in 1..Len(kept) |-> stemToken(kept[i])])

\* subsection is "" when the page has none
createSearchableText(title, text, section, subsection) ==
    LET parts == IF subsection # "" THEN <<title, text, section, subsection>>
                 ELSE <<title, text, section>>
        done == [i \in 1..Len(parts) |-> join(processText(parts[i]), " ")]
    IN join(NonEmpty(done), " ")

(***************************************************************************)
(* The pages handed to the store: what scrapePage makes of two pages,      *)
(* each in two versions.                                                   *)
(***************************************************************************)
StorePaths == {"/sdk", "/guide/api"}

StoreVersions == {1, 2}

RECURSIVE Repeat(_, _)
Repeat(s, n) == IF n = 0 THEN "" ELSE s \o Repeat(s, n - 1)

\* 322 characters of text in front of the words that matter
Filler == Repeat("loremipsumdolorsitamet ", 14)

StoreTitle(path, v) == IF path = "/sdk" THEN " Setup " ELSE "Keys"

\* the plain text extractContent returns
StoreText(path, v) ==
    CASE path = "/sdk" /\ v = 1 -> "Running the wallet"
      [] path = "/sdk" /\ v = 2 -> "Wallet config 42"
      [] path = "/guide/api" /\ v = 1 -> Filler \o "database keys"
      [] path = "/guide/api" /\ v = 2 -> "API keys"

RECURSIVE TrimText(_)
TrimText(s) ==
    IF s = "" THEN ""
    ELSE IF CharAt(s, 1) = " " THEN TrimText(SubSeq(s, 2, Len(s)))
    ELSE IF CharAt(s, Len(s)) = " " THEN TrimText(SubSeq(s, 1, Len(s) - 1))
    ELSE s

PathParts(path) == NonEmpty(split(path, {"/"}))

extractSection(path) ==
    LET pathParts == PathParts(path)
        first == IF pathParts = <<>> THEN "" ELSE toLowerCase(pathParts[1])
    IN CASE pathParts = <<>> -> "Introduction"
         [] first = "sdk" -> "SDK"
         [] first = "backend" -> "Backend"
         [] first = "frontend" -> "Frontend"
         [] first = "introduction" -> "Introduction"
         [] OTHER -> pathParts[1]

\* "" stands for undefined
extractSubsection(path) ==
    LET pathParts == PathParts(path)
    IN IF Len(pathParts) < 2 THEN "" ELSE pathParts[2]

\* the record scrapePage stores, with the fields the store reads
BuildPage(path, v) ==
    LET title == StoreTitle(path, v)
        text == StoreText(path, v)
        section == extractSection(path)
        subsection == extractSubsection(path)
        cleanTitle == TrimText(title)
    IN [path |-> path,
        title |-> cleanTitle,
        content |-> text,
        section |-> section,
        subsection |-> subsection,
        searchableText |->
            createSearchableText(cleanTitle, text, section, subsection)]

ScrapedPage == [path \in StorePaths, v \in StoreVersions |-> BuildPage(path, v)]

\* Object.values(content) for the content maps tried: no page, one page, or
\* both pages in the order the crawl stored them
StoreContents ==
    {<<>>}
    \cup {<<ScrapedPage[p, v]>> : p \in StorePaths, v \in StoreVersions}
    \cup {<<ScrapedPage["/sdk", v], ScrapedPage["/guide/api", w]>> :
             v \in StoreVersions, w \in StoreVersions}

(***************************************************************************)
(* SQLiteStore (sqliteStore.ts): the schema, updateContent and search.     *)
(***************************************************************************)
\* updateContent calls explored
MaxUpdates == 2
\* search(query, limit = 20, offset = 0)
DefaultLimit == 20
\* generateSnippet(content, query, maxLength = 300)
SnippetMaxLength == 300
\* generateSnippet: the snippet starts this far in front of the hit
SnippetLead == 50

\* PRAGMA recursive_triggers is never issued, so it has SQLite's default
RecursiveTriggers == FALSE

\* the columns of pages_fts
FtsColumns == {"path", "title", "searchable_text", "section", "subsection"}

Row(page, rowid) ==
    [rowid |-> rowid,
     path |-> page.path,
     title |-> page.title,
     content |-> page.content,
     section |-> page.section,
     subsection |-> page.subsection,
     searchable_text |-> page.searchableText]

rowToPage(row) ==
    [path |-> row.path,
     title |-> row.title,
     content |-> row.content,
     section |-> row.section,
     subsection |-> row.subsection,
     searchableText |-> row.searchable_text]

\* the unicode61 tokenizer of FTS5: lower-cased runs of letters and digits
FtsTokens(s) ==
    NonEmpty(split(ReplaceAll(toLowerCase(s), Punctuation \cup {"-"}, " "),
                   {" "}))

\* what trigger pages_ai puts into pages_fts for a new row: under the row's
\* rowid, the tokens of each indexed column
FtsEntry(row) ==
    [c \in FtsColumns \cup {"rowid"} |->
        IF c = "rowid" THEN row.rowid ELSE FtsTokens(row[c])]

\* the rowid SQLite gives a new row of a table without INTEGER PRIMARY KEY
NewRowid(table) ==
    IF table = {} THEN 1
    ELSE (CHOOSE r \in table : \A o \in table : o.rowid <= r.rowid).rowid + 1

\* an insert that first empties the table
InsertReplacingAll(page, db) ==
    LET new == Row(page, NewRowid(db.table))
    IN [table |-> {new}, fts |-> {FtsEntry(new)}]

\* INSERT OR REPLACE INTO pages: a row with the same path (the primary key)
\* is deleted to make room; that delete fires trigger pages_ad only if
\* recursive triggers are on. Then the row is inserted and pages_ai fires.
InsertOrReplace(page, db) ==
    LET new == Row(page, NewRowid(db.table))
        old == {r \in db.table : r.path = page.path}
        gone == IF RecursiveTriggers THEN {FtsEntry(r) : r \in old} ELSE {}
    IN [table |-> (db.table \ old) \cup {new},
        fts |-> (db.fts \ gone) \cup {FtsEntry(new)}]

\* the transaction of updateContent: one INSERT OR REPLACE per page, in order
RECURSIVE Transaction(_, _)
Transaction(pages, db) ==
    IF pages = <<>> THEN db
    ELSE Transaction(Tail(pages), InsertOrReplace(Head(pages), db))

\* every order of the elements of S
Orderings(S) == {s \in [1..Cardinality(S) -> S] : Range(s) = S}

\* a transaction that keeps the writes made before the failure
RollbackKeeps(db, partial) == partial

\* db.transaction(fn): when fn throws, better-sqlite3 rolls the transaction
\* back and rethrows; the triggers' writes to pages_fts are part of it
Rollback(db, partial) == db

\* an updateContent that leaves the search cache as it is
ClearCacheNot(cache) == cache

\* this.searchCache.clear()
ClearCache(cache) == {}

\* updateContent(content) with pages = Object.values(content). failAt = 0:
\* every insertStmt.run succeeds; failAt = k: the k-th one throws (a full
\* disk, a locked database, a NULL in a NOT NULL column), the exception
\* leaves updateContent and the metadata and the search cache are not
\* reached.
updateContent(pages, failAt) ==
    /\ storeClock < MaxUpdates
    /\ failAt \in 0..Len(pages)
    /\ IF pages = <<>>
       THEN UNCHANGED storeVars
       ELSE IF failAt > 0
       THEN LET db0 == [table |-> pagesTable, fts |-> ftsIndex]
                partial == Transaction(SubSeq(pages, 1, failAt - 1), db0)
                db == Rollback(db0, partial)
            IN /\ pagesTable' = db.table
               /\ ftsIndex' = db.fts
               /\ lastUpdate' = [failAt |-> failAt]
               /\ UNCHANGED <<metadata, searchCache, storeClock,
                              lastSearch, rankOrder>>
       ELSE LET db == Transaction(pages, [table |-> pagesTable,
                                          fts |-> ftsIndex])
            IN /\ pagesTable' = db.table
               /\ ftsIndex' = db.fts
               /\ storeClock' = storeClock + 1
               /\ metadata' = [last_updated |-> storeClock + 1,
                               page_count |-> Len(pages)]
               /\ searchCache' = ClearCache(searchCache)
               /\ lastSearch' = NoSearch
               /\ rankOrder' \in Orderings({r.path : r \in db.table})
               /\ lastUpdate' = [failAt |-> 0]
    /\ UNCHANGED <<scraperVars, fpVars, unitVars>>

IsPhraseOf(phrase, tokens) ==
    /\ phrase # <<>>
    /\ \E i \in 0..(Len(tokens) - Len(phrase)) :
           SubSeq(tokens, i + 1, i + Len(phrase)) = phrase

\* pages_fts MATCH '"t1" OR "t2" ...': some term is a phrase of some column
FtsMatch(entry, phrases) ==
    \E k \in 1..Len(phrases), c \in FtsColumns :
        IsPhraseOf(phrases[k], entry[c])

generateSnippet(text, query) ==
    LET words == split(toLowerCase(query), {" "})
        lowerContent == toLowerCase(text)
        hits == {indexOf(lowerContent, words[k]) : k \in 1..Len(words)} \ {-1}
        bestIndex == IF hits = {} THEN -1
                     ELSE CHOOSE h \in hits : \A g \in hits : h <= g
        start == Max(0, bestIndex - SnippetLead)
        end == Min(Len(text), start + SnippetMaxLength)
    IN IF bestIndex = -1
       THEN substring(text, 0, SnippetMaxLength)
                \o (IF Len(text) > SnippetMaxLength THEN "..." ELSE "")
       ELSE (IF start > 0 THEN "..." ELSE "")
                \o substring(text, start, end)
                \o (IF end < Len(text) THEN "..." ELSE "")

\* the searches tried: <<query, limit, offset>>
StoreSearches ==
    {<<"wallet", DefaultLimit, 0>>, <<"Running", DefaultLimit, 0>>,
     <<"keys", DefaultLimit, 0>>, <<"wallet keys", 1, 1>>}

\* one query read page by page, one row a page
PagedSearches ==
    {<<"wallet keys", 1, 0>>, <<"wallet keys", 1, 1>>, <<"wallet keys", 1, 2>>}

\* generateSnippet on the page texts and queries tried, computed once
SnippetTable ==
    {[text |-> StoreText(p, v), query |-> a[1],
      snippet |-> generateSnippet(StoreText(p, v), a[1])] :
         p \in StorePaths, v \in StoreVersions, a \in StoreSearches}

Snippet(text, query) ==
    (CHOOSE e \in SnippetTable : e.text = text /\ e.query = query).snippet

\* a cache key that leaves the offset out
cacheKeyNoOffset(query, limit, offset) == <<query, limit, 0>>

\* `${query}:${limit}:${offset}`
cacheKey(query, limit, offset) == <<query, limit, offset>>

\* FROM pages_fts JOIN pages ON pages.rowid = pages_fts.rowid
\* WHERE pages_fts MATCH ?, the query being '"t1" OR "t2" ...'
Matching(query, table, fts) ==
    LET terms == split(query, {" "})
        phrases == [k \in 1..Len(terms) |-> FtsTokens(terms[k])]
    IN {r \in table : \E e \in fts : e.rowid = r.rowid /\ FtsMatch(e, phrases)}

\* ORDER BY pages_fts.rank. The bm25 score is not computed: the order it
\* gives the rows of one database state is some order, the same for every
\* statement run on that state.
Ranked(rows, order) ==
    Concat([i \in 1..Len(order) |->
               IF \E r \in rows : r.path = order[i]
               THEN <<CHOOSE r \in rows : r.path = order[i]>>
               ELSE <<>>])

\* stmt.all(searchQuery, limit, offset) and rows.map(...): LIMIT ? OFFSET ?
\* of the ranked rows, each with its snippet
QueryResults(query, limit, offset) ==
    LET ranked == Ranked(Matching(query, pagesTable, ftsIndex), rankOrder)
        rows == Slice(ranked, offset, limit)
    IN [k \in 1..Len(rows) |->
           [page |-> rowToPage(rows[k]),
            snippet |-> Snippet(rows[k].content, query)]]

search(query, limit, offset) ==
    LET key == cacheKey(query, limit, offset)
        hit == {c \in searchCache : c.key = key}
    IN /\ IF hit # {}
          THEN /\ lastSearch' = [query |-> query, limit |-> limit,
                                 offset |-> offset,
                                 results |-> (CHOOSE c \in hit : TRUE).results]
               /\ UNCHANGED searchCache
          ELSE LET found == QueryResults(query, limit, offset)
               IN /\ searchCache' =
                         searchCache \cup {[key |-> key, results |-> found]}
                  /\ lastSearch' = [query |-> query, limit |-> limit,
                                    offset |-> offset, results |-> found]
       /\ UNCHANGED <<pagesTable, ftsIndex, metadata, storeClock, rankOrder,
                      lastUpdate>>
       /\ UNCHANGED <<scraperVars, fpVars, unitVars>>

\* the timer search sets: setTimeout(() => this.searchCache.delete(cacheKey))
ExpireCacheEntry(key) ==
    /\ \E c \in searchCache : c.key = key
    /\ searchCache' = {c \in searchCache : c.key # key}
    /\ UNCHANGED <<pagesTable, ftsIndex, metadata, storeClock, lastSearch,
                   rankOrder, lastUpdate>>
    /\ UNCHANGED <<scraperVars, fpVars, unitVars>>

InitStore == ScraperInit(ScrapeSites) /\ FpIdle /\ StoreIdle /\ UnitIdle

NextStore ==
    \/ \E pages \in StoreContents : updateContent(pages, 0)
    \/ \E a \in StoreSearches : search(a[1], a[2], a[3])
    \/ \E a \in StoreSearches :
           ExpireCacheEntry(cacheKey(a[1], a[2], a[3]))

SpecStore == InitStore /\ [][NextStore]_vars

\* the store read page by page between updates
NextPaging ==
    \/ \E pages \in StoreContents : updateContent(pages, 0)
    \/ \E a \in PagedSearches : search(a[1], a[2], a[3])
    \/ \E a \in PagedSearches :
           ExpireCacheEntry(cacheKey(a[1], a[2], a[3]))

SpecPaging == InitStore /\ [][NextPaging]_vars

\* the store with updates whose transaction may fail
NextUpdate ==
    \/ \E pages \in StoreContents, failAt \in 0..2 :
           updateContent(pages, failAt)
    \/ \E a \in PagedSearches : search(a[1], a[2], a[3])

SpecUpdate == InitStore /\ [][NextUpdate]_vars

(***************************************************************************)
(* scrapePageWithRetry as a function of what scrapePage does: every        *)
(* invocation of scrapePage either returns or throws.                      *)
(***************************************************************************)
\* largest gitBookConfig.maxRetries tried
MaxBackoffRetries == 7
\* 1000 * Math.pow(2, retryCount)
BackoffBase == 1000
\* Math.min(..., 10000)
BackoffCap == 10000

\* a backoff without the cap
BackoffDelayUncapped(k) == BackoffBase * 2^k

\* const delay = Math.min(1000 * Math.pow(2, retryCount), 10000)
BackoffDelay(k) == Min(BackoffBase * 2^k, BackoffCap)

\* scrapePageSafe has called scrapePageWithRetry(path, forceUpdate), which
\* is about to await scrapePage; maxRetries is validated to be >= 0
InitBackoff ==
    /\ ScraperInit(ScrapeSites)
    /\ FpIdle
    /\ StoreIdle
    /\ UpdateCheckIdle
    /\ boMaxRetries \in 0..MaxBackoffRetries
    /\ boRetryCount = 0
    /\ boDelays = <<>>
    /\ boState = "calling"

\* await this.scrapePage(...) returns; failedPages.delete(path)
ScrapePageReturns ==
    /\ boState = "calling"
    /\ boState' = "returned"
    /\ UNCHANGED <<boMaxRetries, boRetryCount, boDelays>>
    /\ UNCHANGED <<scraperVars, fpVars, storeVars, updateCheckVars>>

\* await this.scrapePage(...) throws: the catch branch, up to the await of
\* this.delay(delay), or the rethrow when retryCount has reached maxRetries
ScrapePageFails ==
    /\ boState = "calling"
    /\ IF boRetryCount < boMaxRetries
       THEN /\ boDelays' = Append(boDelays, BackoffDelay(boRetryCount))
            /\ boState' = "waiting"
       ELSE /\ boState' = "thrown"
            /\ UNCHANGED boDelays
    /\ UNCHANGED <<boMaxRetries, boRetryCount>>
    /\ UNCHANGED <<scraperVars, fpVars, storeVars, updateCheckVars>>

\* the delay is over: return this.scrapePageWithRetry(path, forceUpdate,
\* retryCount + 1)
DelayElapsed ==
    /\ boState = "waiting"
    /\ boRetryCount' = boRetryCount + 1
    /\ boState' = "calling"
    /\ UNCHANGED <<boMaxRetries, boDelays>>
    /\ UNCHANGED <<scraperVars, fpVars, storeVars, updateCheckVars>>

NextBackoff == ScrapePageReturns \/ ScrapePageFails \/ DelayElapsed

SpecBackoff == InitBackoff /\ [][NextBackoff]_vars

(***************************************************************************)
(* The background update check of the server (checkForUpdatesBackground)   *)
(* as a function of the clock, of cacheTtlHours and of the last_updated    *)
(* value an earlier updateContent left in the metadata table. Times are in *)
(* seconds since the epoch: a number of milliseconds of this century       *)
(* exceeds the integers of the model checker.                              *)
(***************************************************************************)
DigitChars == <<"0", "1", "2", "3", "4", "5", "6", "7", "8", "9">>

IsDigit(c) == \E d \in 0..9 : DigitChars[d + 1] = c

DigitValue(c) == CHOOSE d \in 0..9 : DigitChars[d + 1] = c

\* String(n).padStart(2, '0') and padStart(4, '0')
Pad2(n) == DigitChars[(n \div 10) + 1] \o DigitChars[(n % 10) + 1]

Pad4(n) == Pad2(n \div 100) \o Pad2(n % 100)

\* the date of the proleptic Gregorian calendar that is `days` days after
\* 1970-01-01
CivilFromDays(days) ==
    LET z == days + 719468
        era == z \div 146097
        doe == z - era * 146097
        yoe == (doe - doe \div 1460 + doe \div 36524 - doe \div 146096)
                   \div 365
        doy == doe - (365 * yoe + yoe \div 4 - yoe \div 100)
        mp == (5 * doy + 2) \div 153
        d == doy - (153 * mp + 2) \div 5 + 1
        m == IF mp < 10 THEN mp + 3 ELSE mp - 9
    IN [year |-> yoe + era * 400 + (IF m <= 2 THEN 1 ELSE 0),
        month |-> m, day |-> d]

\* new Date(t * 1000).toISOString(): YYYY-MM-DDTHH:mm:ss.sssZ
toISOString(t) ==
    LET date == CivilFromDays(t \div 86400)
        sod == t % 86400
    IN Pad4(date.year) \o "-" \o Pad2(date.month) \o "-" \o Pad2(date.day)
           \o "T" \o Pad2(sod \div 3600) \o ":" \o Pad2((sod % 3600) \div 60)
           \o ":" \o Pad2(sod % 60) \o ".000Z"

\* the number written by the digits of s from position i on, after acc
RECURSIVE ParseDigits(_, _, _)
ParseDigits(s, i, acc) ==
    IF i <= Len(s) /\ IsDigit(CharAt(s, i))
    THEN ParseDigits(s, i + 1, 10 * acc + DigitValue(CharAt(s, i)))
    ELSE acc

\* parseInt(s) of a string that starts with a digit: the number written by
\* its leading digits; parsing stops at the first other character
parseInt(s) == ParseDigits(s, 1, 0)

\* hoursSinceUpdate < cacheTtlHours, with hoursSinceUpdate =
\* (Date.now() - parsedMs) / (1000 * 60 * 60) and Date.now() = 1000 * now:
\* 1000 * now - parsedMs < 3600000 * ttlHours, which in whole seconds is
\* now - 3600 * ttlHours <= (parsedMs - 1) div 1000
IsFreshEnough(now, parsedMs, ttlHours) ==
    now - 3600 * ttlHours <= (parsedMs - 1) \div 1000

\* Date.now() of the server starts tried: 2026-11-02T06:00:00Z and
\* 2027-01-01T00:00:30Z
UpdateCheckNows == {1793599200, 1798761630}

\* how long before the start an earlier run called updateContent, in seconds
UpdateCheckAges == {60, 3599, 3600, 7200, 86399, 90000}

\* cacheTtlHours: the default 1, a day, and 0 (validated to be >= 0)
UpdateCheckTtls == {0, 1, 24}

\* the server has started; the database either has no last_updated or the
\* one updateContent wrote: new Date().toISOString()
InitUpdateCheck ==
    /\ ScraperInit(ScrapeSites)
    /\ FpIdle
    /\ StoreIdle
    /\ BackoffIdle
    /\ bgNow \in UpdateCheckNows
    /\ bgTtlHours \in UpdateCheckTtls
    /\ bgWrittenAt \in {0} \cup {bgNow - a : a \in UpdateCheckAges}
    /\ bgLastUpdated = IF bgWrittenAt = 0 THEN "" ELSE toISOString(bgWrittenAt)
    /\ bgOutcome = "pending"

\* the timer callback of checkForUpdatesBackground; pageCount is the number
\* of pages the scraper holds after scrapeAll
checkForUpdatesBackground(pageCount) ==
    /\ bgOutcome = "pending"
    /\ IF /\ bgLastUpdated # ""
          /\ IsFreshEnough(bgNow, parseInt(bgLastUpdated), bgTtlHours)
       THEN /\ bgOutcome' = "skipped"
            /\ UNCHANGED bgLastUpdated
       ELSE IF pageCount > 0
       THEN \* scrapeAll, then updateContent: setMetadata('last_updated')
            /\ bgOutcome' = "updated"
            /\ bgLastUpdated' = toISOString(bgNow)
       ELSE /\ bgOutcome' = "empty"
            /\ UNCHANGED bgLastUpdated
    /\ UNCHANGED <<bgNow, bgTtlHours, bgWrittenAt>>
    /\ UNCHANGED <<scraperVars, fpVars, storeVars, backoffVars>>

NextUpdateCheck == \E pageCount \in 0..1 : checkForUpdatesBackground(pageCount)

SpecUpdateCheck == InitUpdateCheck /\ [][NextUpdateCheck]_vars

(***************************************************************************)
(* Properties of the scraper.                                              *)
(***************************************************************************)
Stored(c) == {p \in AllPaths : c[p] # NoPage}

\* p was fetched by scrapePage in this run and no fetch of it returned HTML
FailedEveryAttempt(p) == fetchCount[p] > 0 /\ p \notin okFetch

\* C1 (as claimed): when a first run has ended, a path whose every fetch
\* failed was fetched 1 + maxRetries times by the main pass and once more by
\* the retry pass, and getFailureStats reports it.
C1_RetryCeiling ==
    (pc = "done" /\ runMode = "first") =>
        \A p \in submitted :
            FailedEveryAttempt(p) =>
                /\ fetchCount[p] = (1 + MaxRetries) + 1
                /\ p \in retried
                /\ failedPages[p] >= 1

\* C2 (as claimed): when a run has ended, every submitted path that was
\* fetched and never fetched successfully is in failedPages with a retry
\* count of at least 1.
C2_FailureSurfaced ==
    pc = "done" =>
        \A p \in submitted : FailedEveryAttempt(p) => failedPages[p] >= 1

\* C3: batch isolation. During a run every path whose fetch returned HTML is
\* stored with what was fetched, whatever became of the other paths; and when
\* the main pass is over every path of its list was handed to a batch.
C3_BatchIsolation ==
    /\ pc \in {"ingest", "update", "retry", "done"} =>
          \A p \in okFetch :
              content[p] = MakePage(PageHtml(p, site[p]), site[p], clock)
    /\ pc = "retry" => Range(paths) \subseteq submitted

\* C3 witness: the first batch (/, /a) lost / and kept /a, and the next
\* batch (/c) ran and was stored.
C3_Witness ==
    /\ pc = "retry"
    /\ runMode = "first"
    /\ paths = <<P0, PA, PC>>
    /\ FailedEveryAttempt(P0)
    /\ content[P0] = NoPage
    /\ content[PA] # NoPage
    /\ content[PC] # NoPage

\* the page the site serves for p is the one the stored record was taken from
Unchanged(p) == before[p] # NoPage /\ before[p].v = site[p]

\* C4: idempotence. A change check that fetched an unchanged page does not
\* mark it changed; and a run in which every stored page is unchanged and was
\* checked (or skipped) ends without any page being fetched for ingestion and
\* with every stored fingerprint as it was.
C4_Idempotence ==
    /\ pc = "detect" =>
          \A p \in AllPaths :
              (checked[p] = "ok" /\ Unchanged(p)) => p \notin Range(changedPages)
    /\ ( /\ pc = "done"
         /\ runMode = "incremental"
         /\ \A p \in Stored(before) :
                Unchanged(p) /\ checked[p] \in {"ok", "skipped"} ) =>
          /\ submitted = {}
          /\ fetchCount = Zero
          /\ \A p \in Stored(before) :
                content[p].contentHash = before[p].contentHash

\* C4 witness: a second run over three unchanged pages, all checked, ended.
C4_Witness ==
    /\ pc = "done"
    /\ runMode = "incremental"
    /\ Stored(before) = {P0, PA, PC}
    /\ \A p \in Stored(before) : Unchanged(p) /\ checked[p] = "ok"

\* the fingerprint the change check computed for p differs from the stored one
CheckSawChange(p) ==
    /\ checked[p] \in {"ok", "nonhtml"}
    /\ CheckedHash(CheckedBody(p, checked[p])) # before[p].contentHash

\* C6: the frame of an incremental update. Only pages whose fingerprint
\* mismatched are fetched again; a page that is not fetched again keeps its
\* contentHash, content and lastUpdated; a page fetched again successfully
\* holds the fingerprint of the page as served now and a lastUpdated of now,
\* and that fingerprint is new when detection had seen the page itself.
C6_UpdateFrame ==
    runMode = "incremental" =>
        /\ \A p \in AllPaths : fetchCount[p] > 0 => CheckSawChange(p)
        /\ \A p \in Stored(before) :
              fetchCount[p] = 0 =>
                  /\ content[p].contentHash = before[p].contentHash
                  /\ content[p].content = before[p].content
                  /\ content[p].lastUpdated = before[p].lastUpdated
        /\ \A p \in okFetch :
              /\ content[p].contentHash = ScrapedHash(PageHtml(p, site[p]))
              /\ content[p].lastUpdated = clock
              /\ before[p].lastUpdated < clock
              /\ checked[p] = "ok" =>
                    content[p].contentHash # before[p].contentHash

\* C6 witness: /a was edited and re-ingested; / was checked and left alone.
C6_Witness ==
    /\ pc = "done"
    /\ runMode = "incremental"
    /\ PA \in okFetch
    /\ content[PA].contentHash # before[PA].contentHash
    /\ before[P0] # NoPage
    /\ fetchCount[P0] = 0
    /\ content[P0].lastUpdated < clock
    /\ content[P0].lastChecked = clock

\* C7: lastChecked in change detection. A page whose check fetch returned
\* 2xx is stamped with the time of the run, changed or not, and is in
\* changedPages exactly when the fresh fingerprint differs from the stored
\* one; a skipped page is neither in changedPages nor stamped.
C7_LastChecked ==
    runMode = "incremental" =>
        \A p \in AllPaths :
            /\ checked[p] \in {"ok", "nonhtml"} =>
                  /\ content[p].lastChecked = clock
                  /\ pc = "detect" =>
                        (p \in Range(changedPages) <=> CheckSawChange(p))
            /\ checked[p] = "skipped" =>
                  /\ p \notin Range(changedPages)
                  /\ content[p].lastChecked = before[p].lastChecked
                  /\ content[p].lastChecked < clock

\* C7 witness: one page checked and changed, one checked and unchanged, one
\* skipped, all in the same detection pass.
C7_Witness ==
    /\ pc = "detect"
    /\ \E p, q, r \in AllPaths :
          /\ checked[p] = "ok" /\ p \in Range(changedPages)
          /\ checked[q] = "ok" /\ q \notin Range(changedPages)
          /\ before[q].lastChecked < content[q].lastChecked
          /\ checked[r] = "skipped"

\* C8 (as claimed): when discovery ends without a failed fetch,
\* discoveredUrls is exactly the set of same-site content paths reachable
\* from / by following the links, however they are spelled.
C8_DiscoveryExact ==
    (pc = "ingest" /\ ~discFailed) =>
        Range(discoveredUrls) = Reachable(links)

\* C5 (as claimed): two (plainText, title) pairs that differ have different
\* fingerprints.
C5_FingerprintSensitive ==
    (fpOut # <<>> /\ fpA # fpB) => fpOut[1] # fpOut[2]

(***************************************************************************)
(* Properties of the store.                                                *)
(***************************************************************************)
\* the words of a page text, as written
ContentTokens(text) == Range(NonEmpty(split(text, {" "})))

\* token occurs in the content of row and of no other stored row
UniqueToken(token, row) ==
    /\ token \in ContentTokens(row.content)
    /\ \A other \in pagesTable \ {row} :
           token \notin ContentTokens(other.content)

\* C9 (as claimed): a search with the default window for a token that occurs
\* in the content of one stored page only returns that page, with a snippet
\* that contains the token.
C9_SearchRoundTrip ==
    ( /\ lastSearch # NoSearch
      /\ lastSearch.limit = DefaultLimit
      /\ lastSearch.offset = 0 ) =>
        \A row \in pagesTable :
            UniqueToken(lastSearch.query, row) =>
                \E k \in 1..Len(lastSearch.results) :
                    /\ lastSearch.results[k].page.path = row.path
                    /\ indexOf(lastSearch.results[k].snippet,
                               lastSearch.query) # -1

\* C10 (as claimed): the full-text index holds exactly the entries of the
\* rows of the pages table: one per row, under the row's rowid, built from
\* the row's current columns, and no other.
C10_IndexConsistent == ftsIndex = {FtsEntry(row) : row \in pagesTable}

(***************************************************************************)
(* Run mode, refresh, concurrency and batching.                            *)
(***************************************************************************)
\* scrapeAll is between its entry and its return
Running == pc \notin {"idle", "done"}

\* pages were persisted by an earlier run: the cache file holds a page
PersistedPages == cacheFile # NoCache /\ cacheFile.keys # <<>>

\* C11 (as claimed): a run does discovery and full ingestion exactly when no
\* persisted pages exist; whenever persisted pages exist it does change
\* detection.
C11_ModeByPersistence ==
    Running => (runMode = "first" <=> ~PersistedPages)

\* C11 (amended): a run does change detection over the cached paths and
\* re-ingests only the changed ones exactly when the cache file holds a page
\* and is younger than cacheTtlHours; every other run (no cache, a cache
\* without pages, a cache older than the TTL) does discovery and ingestion.
C11_RunMode ==
    Running =>
        /\ runMode = "incremental" <=> (PersistedPages /\ cacheFresh)
        /\ runMode = "first" <=> ~(PersistedPages /\ cacheFresh)
        /\ runMode = "first" => pc \in {"discover", "ingest", "retry"}
        /\ runMode = "incremental" =>
              /\ pc \in {"detect", "update", "retry"}
              /\ pc = "detect" => paths = cacheFile.keys
              /\ pc = "update" =>
                    Range(paths) = {p \in AllPaths : CheckSawChange(p)}
              /\ submitted \subseteq {p \in AllPaths : CheckSawChange(p)}

\* C11 witness: a later run found a fresh cache of three pages, checked them
\* and is re-ingesting the one page that changed.
C11_Witness ==
    /\ pc = "update"
    /\ runMode = "incremental"
    /\ Cardinality(Stored(before)) = 3
    /\ Len(paths) = 1
    /\ inflight = Range(paths)

\* no fetch of the run failed: discovery got HTML for every path it asked
\* for, and so did scrapePage
RunFaultFree ==
    /\ ~discFailed
    /\ \A p \in AllPaths : fetchCount[p] > 0 => p \in okFetch

\* C12 (as claimed): when scrapeAll, called again on an instance that already
\* holds pages, took the discovery and ingestion branch and no fetch failed,
\* every reachable page was fetched again and content holds each of them
\* as the site serves it now.
C12_ForcedRefresh ==
    (pc = "done" /\ runMode = "first" /\ Stored(before) # {}
        /\ RunFaultFree) =>
        \A p \in Reachable(links) :
            /\ fetchCount[p] > 0
            /\ content[p] # NoPage
            /\ content[p].v = site[p]

\* C13: bounded concurrency. The fetches in flight are never more than
\* maxConcurrentRequests; in discovery never more than
\* min(8, maxConcurrentRequests); in the retry pass never more than
\* max(1, floor(maxConcurrentRequests / 2)).
C13_BoundedConcurrency ==
    /\ Cardinality(inflight) <= MaxConcurrentRequests
    /\ pc = "discover" =>
          Cardinality(inflight) <= Min(DiscoveryCap, MaxConcurrentRequests)
    /\ pc = "retry" =>
          Cardinality(inflight) <= Max(1, MaxConcurrentRequests \div 2)

\* C13 witness: change detection has a full batch in flight and more paths
\* to go.
C13_Witness ==
    /\ pc = "detect"
    /\ Cardinality(inflight) = MaxConcurrentRequests
    /\ idx < Len(paths)

\* C14: strict batch sequencing. A step that puts new fetches in flight
\* starts from a state with no fetch in flight.
C14_BatchSequencing ==
    [][(inflight' \ inflight) # {} => inflight = {}]_vars

\* C14 witness: the second ingestion batch is in flight; the first one
\* resolved, one of its fetches having failed.
C14_Witness ==
    /\ pc = "ingest"
    /\ idx > MaxConcurrentRequests
    /\ inflight # {}
    /\ \E p \in submitted \ inflight : FailedEveryAttempt(p)

\* the list has no element twice
NoDuplicates(s) == \A i, j \in 1..Len(s) : s[i] = s[j] => i = j

\* C15: no race on a path. The list a batch loop iterates holds no path
\* twice, so no batch cut from it does, and the paths in flight are paths of
\* the batch the loop is at.
C15_NoRace ==
    Running =>
        /\ NoDuplicates(WorkList)
        /\ inflight \subseteq Range(WorkList)
        /\ (pc # "discover" /\ inflight # {}) =>
              inflight \subseteq
                  Range(Slice(WorkList, idx - BatchSize(pc), BatchSize(pc)))

\* C15 witness: two workers of one ingestion batch are fetching two
\* different paths.
C15_Witness ==
    /\ pc = "ingest"
    /\ inflight = {P0, PA}
    /\ content[P0] = NoPage
    /\ content[PA] = NoPage

(***************************************************************************)
(* Timeouts, failure classes, durability.                                  *)
(***************************************************************************)
\* a step of the running scrapeAll: a fetch settles or a loop goes on
RunStep ==
    \/ \E p \in AllPaths, o \in Outcomes : DiscoverFetchDone(p, o)
    \/ DiscoverLoop
    \/ ScrapeBatch
    \/ \E p \in AllPaths, o \in Outcomes : ScrapeFetchDone(p, o)
    \/ FinishPass
    \/ \E written \in BOOLEAN : FinishRun(written)
    \/ DetectBatch
    \/ \E p \in AllPaths, o \in Outcomes : CheckFetchDone(p, o)
    \/ DetectDone

\* C16 (as claimed): a request the server never answers is settled by the
\* request timeout, so a running scrapeAll can always take its next step.
C16_TimeoutBound == Running => ENABLED RunStep

Transient == {"5xx", "neterr"}

Permanent == {"4xx", "nonhtml"}

\* C17 (as claimed): a path whose fetch failed permanently is not fetched
\* again in that pass; a path whose last fetch failed transiently was
\* fetched 1 + maxRetries times or more and is in the failure record when
\* the run ends.
C17_FailureClasses ==
    /\ \A p \in AllPaths : lastOutcome[p] \in Permanent => p \notin inflight
    /\ pc = "done" =>
          \A p \in AllPaths :
              lastOutcome[p] \in Transient =>
                  /\ fetchCount[p] >= 1 + MaxRetries
                  /\ failedPages[p] >= 1

\* C18 (as claimed): when an ingestion batch has resolved, every page
\* extracted in this run is in the persisted cache as it is in memory.
C18_DurableBatches ==
    (pc \in {"ingest", "update", "retry"} /\ BatchSettled(inflight)) =>
        \A p \in okFetch :
            /\ cacheFile # NoCache
            /\ cacheFile.content[p] = content[p]

\* C19: no page without a successful fetch. Every path of the content map,
\* and every path of the cache file, was at some time fetched by scrapePage
\* with a 2xx HTML response and extracted.
C19_FetchedBeforeStored ==
    /\ Stored(content) \subseteq extracted
    /\ cacheFile # NoCache => Stored(cacheFile.content) \subseteq extracted

\* C19 witness: a run ended and was saved in which / was stored while /a
\* answered 2xx with another content type and /c with a 5xx; neither has a
\* record.
C19_Witness ==
    /\ pc = "done"
    /\ cacheFile # NoCache
    /\ Stored(cacheFile.content) = {P0}
    /\ lastOutcome[PA] = "nonhtml"
    /\ lastOutcome[PC] = "5xx"
    /\ Stored(content) = {P0}

(***************************************************************************)
(* The store across updates.                                               *)
(***************************************************************************)
StoredPaths(table) == {row.path : row \in table}

\* C20: pages are never deleted. No step of the store removes a path from
\* the pages table.
C20_NeverDeleted ==
    [][StoredPaths(pagesTable) \subseteq StoredPaths(pagesTable')]_vars

\* C20 witness: the last updateContent was handed fewer pages than the table
\* holds: a page it was not handed kept its row.
C20_Witness ==
    /\ metadata # NoMetadata
    /\ storeClock >= 2
    /\ metadata.page_count < Cardinality(pagesTable)

(***************************************************************************)
(* The failure record, the end of a run, the retry pass.                   *)
(***************************************************************************)
\* getFailureStats().failedPages: the keys of this.failedPages
FailureStats == {p \in AllPaths : failedPages[p] >= 1}

\* the paths this run handed to scrapePage without ever getting the page
FailedInRun == {p \in submitted \cup retried : FailedEveryAttempt(p)}

ReachedSave == runMode = "first" \/ submitted # {}

\* C23 (as claimed): a run that completed normally and had results to save
\* has written them: the cache file is of this run and holds the content.
C23_StoreFailureFatal ==
    (pc = "done" /\ ReachedSave) =>
        /\ cacheFile # NoCache
        /\ cacheFile.timestamp = clock
        /\ cacheFile.content = content

Last(s) == s[Len(s)]

\* every page that was fetched in this run failed on every attempt
EveryPageFailed ==
    /\ fetchCount[P0] > 0
    /\ \A p \in AllPaths : fetchCount[p] > 0 => p \notin okFetch

\* C22: per-page failures never abort a run: whatever the outcomes of the
\* fetches, every page failing included, scrapeAll is never ended by a
\* rejected task, a run none of whose requests hangs always has a next step,
\* and a finished first run has been through saveToCache with the pages it
\* holds.
C22_NeverAborts ==
    /\ pc # "failed"
    /\ (Running /\ hung = {}) => ENABLED RunStep
    /\ (pc = "done" /\ runMode = "first" /\ cacheFile # NoCache
           /\ cacheFile.timestamp = clock) => cacheFile.content = content

\* C22 witness: a first run in which every fetched page failed has finished
\* and has written a store of zero pages
C22_Witness ==
    /\ pc = "done"
    /\ runMode = "first"
    /\ EveryPageFailed
    /\ discFailed
    /\ Stored(content) = {}
    /\ cacheFile # NoCache
    /\ cacheFile.timestamp = clock
    /\ cacheFile.keys = <<>>

\* C26: the change check of a path fetches it at most 1 + 2 times; a fetch is
\* followed by another one only after a 5xx or a network error; a path whose
\* check is over ended on a 2xx, on a non-transient failure, or on the third
\* fetch.
C26_CheckRetryBound ==
    \A p \in AllPaths :
        LET f == checkFetches[p]
        IN /\ Len(f) <= 1 + QuickRetries
           /\ \A i \in 1..(Len(f) - 1) : f[i] \in {"5xx", "neterr"}
           /\ (pc = "detect" /\ p \in inflight) => retryCount[p] = Len(f)
           /\ (f # <<>> /\ p \notin inflight) =>
                 \/ ResponseOk(Last(f))
                 \/ Last(f) \notin {"5xx", "neterr"}
                 \/ Len(f) = 1 + QuickRetries

\* C26 witness: a path was fetched three times, each fetch a 5xx or a network
\* error, and given up; the pass went on to its end
C26_Witness ==
    /\ pc = "done"
    /\ runMode = "incremental"
    /\ \E p \in AllPaths : /\ Len(checkFetches[p]) = 1 + QuickRetries
                             /\ Last(checkFetches[p]) \in {"5xx", "neterr"}
                             /\ checked[p] = "skipped"

\* C28: throughout discovery the discovered set is the union of the
\* processed set and the queue, and no path is fetched twice by one
\* discovery.
C28_DiscoveryInvariant ==
    pc = "discover" =>
        /\ Range(discoveredUrls) = processed \cup Range(queue)
        /\ \A p \in AllPaths : Len(discFetches[p]) <= 1

\* the paths whose discovery fetch failed
FailedDiscovery ==
    {p \in AllPaths : discFetches[p] # <<>> /\ Last(discFetches[p]) # "ok"}

\* C29: discovery tolerates failures: a path whose discovery fetch failed
\* contributes no links; discovery is never stopped by a failure (a fetch of
\* the batch is still to settle, or the loop takes its next turn); when it
\* is over every discovered path, the failed ones and the ones of later
\* batches included, has been fetched exactly once.
C29_DiscoveryTolerant ==
    /\ pc = "discover" =>
          /\ \A p \in FailedDiscovery : results[p] = <<>>
          /\ ENABLED DiscoverLoop \/ inflight \ hung # {}
    /\ pc = "ingest" =>
          /\ Range(discoveredUrls) = processed
          /\ \A p \in processed : Len(discFetches[p]) = 1

\* C29 witness: discovery is over; one path of a batch failed, another path
\* of the same batch gave its links and a path of a later batch was fetched
C29_Witness ==
    /\ pc = "ingest"
    /\ FailedDiscovery # {}
    /\ \E p \in FailedDiscovery, q \in processed :
          /\ q # p
          /\ q # P0
          /\ discFetches[q] = <<"ok">>
          /\ links[q] # <<>>
    /\ Cardinality(processed) >= 4

(***************************************************************************)
(* Properties of the store: pagination and the update transaction.         *)
(***************************************************************************)
\* the paths of a list of search results
ResultPaths(found) == [k \in 1..Len(found) |-> found[k].page.path]

C25_AllOrNothing ==
    [][(lastUpdate' # NoUpdate /\ lastUpdate'.failAt > 0) =>
          /\ pagesTable' = pagesTable
          /\ ftsIndex' = ftsIndex
          /\ metadata' = metadata]_vars

\* C25 witness: the second insert of a call failed on a store that held
\* pages of an earlier call
C25_Witness ==
    /\ lastUpdate # NoUpdate
    /\ lastUpdate.failAt = 2
    /\ storeClock >= 1
    /\ pagesTable # {}

(***************************************************************************)
(* Properties of link extraction.                                          *)
(***************************************************************************)
\* C30: link extraction returns only same-site content links: every
\* returned path is the same-site content path one of the hrefs refers to;
\* an href to another host, a fragment or a non-HTTP scheme yields nothing.
C30_OnlySameSiteLinks ==
    linksOut # NotExtracted =>
        \A i \in 1..Len(linksOut) :
            \E j \in 1..Len(hrefsIn) :
                /\ Resolve(P0, hrefsIn[j]) = linksOut[i]
                /\ IsContentPath(linksOut[i])

(***************************************************************************)
(* Properties of the stored page records.                                  *)
(***************************************************************************)
\* C33 (as claimed): hash integrity: the contentHash of every page record
\* in the content store is the hash over the record's own stored plain text
\* and stored title.
C33_HashIntegrity ==
    \A p \in AllPaths :
        content[p] # NoPage =>
            content[p].contentHash =
                Fingerprint(content[p].content, content[p].title)

(***************************************************************************)
(* The result count of a search.                                           *)
(***************************************************************************)
\* searchContentCount(query): SELECT COUNT(*) FROM pages_fts WHERE pages_fts
\* MATCH ?, the query built as search builds it; the pages table is not
\* joined
searchContentCount(query) ==
    LET terms == split(query, {" "})
        phrases == [k \in 1..Len(terms) |-> FtsTokens(terms[k])]
    IN Cardinality({e \in ftsIndex : FtsMatch(e, phrases)})

\* the number of results a caller collects who reads search(query, limit,
\* offset) at offset, offset + limit, ... until a page comes back empty
RECURSIVE PagedTotal(_, _, _)
PagedTotal(query, limit, offset) ==
    LET page == QueryResults(query, limit, offset)
    IN IF page = <<>> THEN 0
       ELSE Len(page) + PagedTotal(query, limit, offset + limit)

\* C37 (as claimed): count consistency: searchContentCount(query) is the
\* total number of results obtained by paging search(query, ...) through
\* all offsets.
C37_CountConsistent ==
    \A a \in StoreSearches :
        searchContentCount(a[1]) = PagedTotal(a[1], 1, 0)

(***************************************************************************)
(* Loading the cache file.                                                 *)
(***************************************************************************)
\* a step that enters scrapeAll, whose first statement is loadFromCache
EntersScrapeAll == ~Running /\ Running'

ConversionFailed ==
    {p \in okFetch : lastOutcome[p] = "ok" /\ PageHtml(p, site[p]).badMarkup}

\* C32: markdown fallback: when the HTML-to-markdown conversion throws,
\* extractMarkdown returns the plain text of the fragment, the page is
\* stored with all its other fields, and the path is not recorded as a
\* failure.
C32_MarkdownFallback ==
    pc \in {"ingest", "update", "retry", "done"} =>
        \A p \in ConversionFailed :
            LET html == PageHtml(p, site[p])
            IN /\ content[p] # NoPage
               /\ content[p].markdown = Trim(MarkdownFragment(html))
               /\ content[p].title = Trim(ExtractTitle(html))
               /\ content[p].content = extractContent(html)
               /\ content[p].contentHash = ScrapedHash(html)
               /\ content[p].lastUpdated = clock
               /\ content[p].lastChecked = clock
               /\ p \notin FailureStats
               /\ p \notin Range(retryQueue)

\* C32 witness: a run has ended that stored /a, whose markup the conversion
\* throws on, with the text of its main container as markdown
C32_Witness ==
    /\ pc = "done"
    /\ PA \in ConversionFailed
    /\ content[PA].markdown = <<"x">>

(***************************************************************************)
(* Properties of the retry backoff.                                        *)
(***************************************************************************)
\* C31: backoff: the delay waited before retry k (k = retryCount, from 0)
\* is min(1000 * 2^k, 10000) ms; the delays of a call never decrease and
\* never exceed 10000 ms, and the recursion is never deeper than
\* maxRetries + 1 invocations.
C31_Backoff ==
    /\ \A i \in 1..Len(boDelays) :
           /\ boDelays[i] =
                  (IF 1000 * 2^(i - 1) < 10000 THEN 1000 * 2^(i - 1)
                   ELSE 10000)
           /\ boDelays[i] <= 10000
           /\ i > 1 => boDelays[i - 1] <= boDelays[i]
    /\ boState # "idle" =>
           /\ boRetryCount + 1 <= boMaxRetries + 1
           /\ Len(boDelays) <= boMaxRetries
           /\ Len(boDelays) =
                  boRetryCount + (IF boState = "waiting" THEN 1 ELSE 0)

\* C31 witness: with maxRetries = 5 every scrapePage call threw; the call
\* waited 1, 2, 4 and 8 seconds and then the capped 10 seconds, and threw
C31_Witness ==
    /\ boState = "thrown"
    /\ boMaxRetries = 5
    /\ boRetryCount = 5
    /\ boDelays = <<1000, 2000, 4000, 8000, 10000>>

(***************************************************************************)
(* Properties of the background update check.                              *)
(***************************************************************************)
\* the check has run to its end
UpdateCheckDone == bgOutcome \in {"skipped", "updated", "empty"}

\* the last_updated the check found was written less than cacheTtlHours ago
WrittenWithinTtl ==
    bgWrittenAt # 0 /\ bgNow - bgWrittenAt < 3600 * bgTtlHours

\* C34 (as claimed): the background update at start-up skips scrapeAll when
\* the store's last_updated, as written by updateContent, is less than
\* cacheTtlHours old, and runs scrapeAll, followed by updateContent of the
\* pages found, otherwise.
C34_FreshnessGate ==
    UpdateCheckDone => (bgOutcome = "skipped" <=> WrittenWithinTtl)

====
